---- MODULE Spec2Model ----
(***************************************************************************)
(* Model of the tolerant extraction / cross-source matching engine of      *)
(* jobscli2.py: the text normaliser, the response normaliser, the          *)
(* Teamlyzer company resolver and the Teamlyzer fact extractor.            *)
(*                                                                         *)
(* Strings are sequences of characters.  A character is written as a TLA+  *)
(* string: ASCII characters as themselves, other code points by name       *)
(* ("U+00E9").  A few fixed words that the code only ever matches as a     *)
(* whole (section headers, tags) are single tokens, see the HTML section.  *)
(***************************************************************************)
EXTENDS Integers, Sequences, FiniteSets, TLC

VARIABLES
    pc,                  \* position of the running function
    s,                   \* _norm: the argument
    normed,              \* _norm(s)
    renormed,            \* _norm(_norm(s))
    data,                \* _extract_jobs_from_response: the decoded payload
    jobs,                \* _extract_jobs_from_response: the returned list
    caller,              \* the function that was called from outside
    job_json,            \* enrich_job_with_teamlyzer: the job
    company_name,        \* the extracted / given company name
    max_pages_fallback,  \* _find_teamlyzer_company_slug: the page budget
    page,                \* _find_teamlyzer_company_slug: the loop variable
    slug,                \* the resolver's result, the scraper's argument
    top_benefits,        \* _scrape_teamlyzer_company: N
    benefits,            \* _scrape_teamlyzer_company: the collected bullets
    out,                 \* _scrape_teamlyzer_company: the profile
    fetched,             \* the requests made so far, with their responses
    start_date,          \* skills: the first argument
    end_date,            \* skills: the second argument
    group,               \* statistics: the argument
    job_index,           \* skills, statistics: position of the loop in jobs
    counts,              \* skills, statistics, list_skills: the counters
    matched_jobs,        \* skills: the jobs that matched a skill
    stdout,              \* the JSON value the command printed
    csv_path,            \* --csv: the file to export to, None when not given
    csv_file,            \* the records of the written file
    exit_code,           \* the exit code of the command, None while it runs
    role,                \* list_skills: the argument
    pages,               \* list_skills: --pages
    top,                 \* list_skills: --top
    picked               \* _pick_job_field: the returned text

normVars      == <<s, normed, renormed>>
extractVars   == <<data, jobs>>
teamlyzerVars == <<caller, job_json, company_name, max_pages_fallback, page,
                   slug, top_benefits, benefits, out, fetched>>

cliVars       == <<start_date, end_date, group, job_index, counts, matched_jobs,
                   stdout, csv_path, csv_file, exit_code, role, pages, top,
                   picked>>

vars == <<pc, normVars, extractVars, teamlyzerVars, cliVars>>

\* Python's None; a one-token sequence, so that it compares with strings
None == <<"None">>

(***************************************************************************)
(* Characters                                                              *)
(***************************************************************************)
SP     == " "
TAB    == "\t"
NL     == "\n"
NBSP   == "U+00A0"    \* NO-BREAK SPACE, NFKD -> U+0020
EACUTE == "U+00E9"    \* e with acute, NFKD -> e U+0301
ECAP   == "U+00C9"    \* E with acute, lower() -> U+00E9
ACUTE  == "U+0301"    \* COMBINING ACUTE ACCENT
DIAER  == "U+0308"    \* COMBINING DIAERESIS
SDIAER == "U+00A8"    \* DIAERESIS (spacing), NFKD -> U+0020 U+0308
TMSIGN == "U+2122"    \* TRADE MARK SIGN, NFKD -> T M, has no lower case

\* str.isspace() / the regex class \s
IsSpace(c) == c \in {SP, TAB, NL, NBSP}

\* unicodedata.combining(ch) != 0
Combining(c) == c \in {ACUTE, DIAER}

LowerLetters ==
    <<"a", "b", "c", "d", "e", "f", "g", "h", "i", "j", "k", "l", "m",
      "n", "o", "p", "q", "r", "s", "t", "u", "v", "w", "x", "y", "z">>
UpperLetters ==
    <<"A", "B", "C", "D", "E", "F", "G", "H", "I", "J", "K", "L", "M",
      "N", "O", "P", "Q", "R", "S", "T", "U", "V", "W", "X", "Y", "Z">>

\* the characters that str.lower() changes, with their lower case
UpperToLower ==
    [c \in {UpperLetters[i] : i \in 1..26} \cup {ECAP} |->
        IF c = ECAP THEN EACUTE
        ELSE LowerLetters[CHOOSE i \in 1..26 : UpperLetters[i] = c]]

\* str.lower() on one character
LowerChar(c) == IF c \in DOMAIN UpperToLower THEN UpperToLower[c] ELSE c

\* unicodedata.normalize("NFKD", ch) on one character
NFKDChar(c) ==
    CASE c = EACUTE -> <<"e", ACUTE>>
      [] c = ECAP   -> <<"E", ACUTE>>
      [] c = NBSP   -> <<SP>>
      [] c = SDIAER -> <<SP, DIAER>>
      [] c = TMSIGN -> <<"T", "M">>
      [] OTHER      -> <<c>>

(***************************************************************************)
(* String primitives                                                       *)
(***************************************************************************)
RECURSIVE LStrip(_)
LStrip(str) ==
    IF str # <<>> /\ IsSpace(Head(str)) THEN LStrip(Tail(str)) ELSE str

RECURSIVE RStrip(_)
RStrip(str) ==
    IF str # <<>> /\ IsSpace(str[Len(str)])
    THEN RStrip(SubSeq(str, 1, Len(str) - 1))
    ELSE str

\* str.strip()
Strip(str) == RStrip(LStrip(str))

\* str.lower()
Lower(str) == [i \in 1..Len(str) |-> LowerChar(str[i])]

RECURSIVE NFKD(_)
NFKD(str) ==
    IF str = <<>> THEN <<>> ELSE NFKDChar(Head(str)) \o NFKD(Tail(str))

\* "".join(ch for ch in s if not unicodedata.combining(ch))
DropCombining(str) == SelectSeq(str, LAMBDA c : ~Combining(c))

\* re.sub(r"\s+", " ", s)
RECURSIVE CollapseSpace(_)
CollapseSpace(str) ==
    IF str = <<>> THEN <<>>
    ELSE IF IsSpace(Head(str))
         THEN <<SP>> \o CollapseSpace(LStrip(str))
         ELSE <<Head(str)>> \o CollapseSpace(Tail(str))

\* a in b, for strings
IsSubstr(a, b) ==
    \E i \in 0..(Len(b) - Len(a)) : SubSeq(b, i + 1, i + Len(a)) = a

\* s or ""
OrEmpty(x) == IF x = None THEN <<>> ELSE x

(***************************************************************************)
(* _norm                                                                   *)
(***************************************************************************)
_norm(x) ==
    CollapseSpace(DropCombining(NFKD(Lower(Strip(OrEmpty(x))))))

(***************************************************************************)
(* Character classes                                                       *)
(***************************************************************************)
Digits == {"0", "1", "2", "3", "4", "5", "6", "7", "8", "9"}

IsLowerAZ(c) == \E i \in 1..26 : LowerLetters[i] = c
IsUpperAZ(c) == \E i \in 1..26 : UpperLetters[i] = c
IsDigit(c)   == c \in Digits                        \* regex \d
\* regex \w
IsWordChar(c) ==
    IsLowerAZ(c) \/ IsUpperAZ(c) \/ IsDigit(c) \/ c \in {"_", EACUTE, ECAP}
\* regex [ \t\r\f\v]
IsHSpace(c) == c \in {SP, TAB}

(***************************************************************************)
(* HTML.  A fetched page is the sequence of its href="/companies/..."      *)
(* targets, in page order, and its body: characters and tags, a tag being  *)
(* one token.                                                              *)
(***************************************************************************)
BR          == "<br>"
PCLOSE      == "</p>"
DIV         == "<div>"        \* any other tag
SCRIPT      == "<script>"
SCRIPTCLOSE == "</script>"
STYLE       == "<style>"
STYLECLOSE  == "</style>"
AMP         == "&amp;"        \* character reference of "&"
NBSPREF     == "&nbsp;"       \* character reference of U+00A0

IsTag(c) == c \in {BR, PCLOSE, DIV, SCRIPT, SCRIPTCLOSE, STYLE, STYLECLOSE}

\* html.unescape
UnescapeChar(c) == IF c = AMP THEN "&" ELSE IF c = NBSPREF THEN NBSP ELSE c
Unescape(h) == [i \in 1..Len(h) |-> UnescapeChar(h[i])]

\* re.sub(r"(?is)<script.*?>.*?</script>", " ", html), and the same for style
RECURSIVE RemoveBlocks(_, _, _)
RemoveBlocks(h, open, close) ==
    IF h = <<>> THEN <<>>
    ELSE IF Head(h) = open /\ \E i \in 2..Len(h) : h[i] = close
         THEN LET end == CHOOSE i \in 2..Len(h) :
                            /\ h[i] = close
                            /\ \A j \in 2..(i - 1) : h[j] # close
              IN  <<SP>> \o RemoveBlocks(SubSeq(h, end + 1, Len(h)), open, close)
         ELSE <<Head(h)>> \o RemoveBlocks(Tail(h), open, close)

\* <br> and </p> become line breaks, every remaining tag a space
TagToText(c) ==
    IF c \in {BR, PCLOSE} THEN NL ELSE IF IsTag(c) THEN SP ELSE c
ReplaceTags(h) == [i \in 1..Len(h) |-> TagToText(h[i])]

\* re.sub(r"[ \t\r\f\v]+", " ", text)
RECURSIVE CollapseHSpace(_)
CollapseHSpace(t) ==
    IF t = <<>> THEN <<>>
    ELSE IF IsHSpace(Head(t))
         THEN LET rest == CollapseHSpace(Tail(t))
              IN  IF rest # <<>> /\ Head(rest) = SP THEN rest ELSE <<SP>> \o rest
         ELSE <<Head(t)>> \o CollapseHSpace(Tail(t))

\* length of the run of \s characters that starts t
RECURSIVE SpaceRun(_)
SpaceRun(t) ==
    IF t # <<>> /\ IsSpace(Head(t)) THEN 1 + SpaceRun(Tail(t)) ELSE 0

\* re.sub(r"\n\s*\n+", "\n", text)
RECURSIVE CollapseBlankLines(_)
CollapseBlankLines(t) ==
    IF t = <<>> THEN <<>>
    ELSE IF Head(t) = NL
         THEN LET run == SpaceRun(t)
                  nls == {i \in 2..run : t[i] = NL}
              IN  IF nls # {}
                  THEN LET last == CHOOSE i \in nls : \A j \in nls : j <= i
                       IN  <<NL>> \o CollapseBlankLines(SubSeq(t, last + 1, Len(t)))
                  ELSE <<NL>> \o CollapseBlankLines(Tail(t))
         ELSE <<Head(t)>> \o CollapseBlankLines(Tail(t))

_html_to_text(html) ==
    Strip(CollapseBlankLines(CollapseHSpace(ReplaceTags(
        RemoveBlocks(RemoveBlocks(Unescape(html), SCRIPT, SCRIPTCLOSE),
                     STYLE, STYLECLOSE)))))

\* text.split("\n")
RECURSIVE SplitLines(_)
SplitLines(t) ==
    IF \E i \in 1..Len(t) : t[i] = NL
    THEN LET first == CHOOSE i \in 1..Len(t) :
                          t[i] = NL /\ \A j \in 1..(i - 1) : t[j] # NL
         IN  <<SubSeq(t, 1, first - 1)>> \o SplitLines(SubSeq(t, first + 1, Len(t)))
    ELSE <<t>>

(***************************************************************************)
(* HTTP responses                                                          *)
(***************************************************************************)
\* requests.get(...) followed by raise_for_status(): a page, or an exception
Page(links, body) == [ok |-> TRUE, links |-> links, body |-> body]
Failure           == [ok |-> FALSE, links |-> <<>>, body |-> <<>>]
EmptyPage         == Page(<<>>, <<>>)

\* outcome of a try block
Return(v) == [status |-> "return", value |-> v]
Pass      == [status |-> "pass", value |-> None]    \* go on after the block
Raise     == [status |-> "raise", value |-> None]   \* exception leaves the function

(***************************************************************************)
(* Job payloads (one posting of the itjobs API)                            *)
(***************************************************************************)
\* A value is a string, an object (a function from its keys) or anything else
VStr(v)  == [kind |-> "str", v |-> v]
VObj(m)  == [kind |-> "dict", m |-> m]
VOther   == [kind |-> "other"]
NoKeys   == [k \in {} |-> VOther]

\* obj.get(k)
Get(obj, k) == IF k \in DOMAIN obj.m THEN obj.m[k] ELSE VOther

\* isinstance(v, str) and v.strip()
NonBlankStr(v) == v.kind = "str" /\ Strip(v.v) # <<>>

\* for k2 in (...): v2 = val.get(k2); if isinstance(v2, str) and v2.strip(): return
RECURSIVE SubKeyLoop(_, _)
SubKeyLoop(val, subkeys) ==
    IF subkeys = <<>> THEN None
    ELSE IF NonBlankStr(Get(val, Head(subkeys)))
         THEN Strip(Get(val, Head(subkeys)).v)
         ELSE SubKeyLoop(val, Tail(subkeys))

\* for key in ("company", "empresa"): ...
RECURSIVE CompanyKeyLoop(_, _)
CompanyKeyLoop(job, keys) ==
    IF keys = <<>> THEN None
    ELSE LET val == Get(job, Head(keys))
         IN  IF NonBlankStr(val) THEN Strip(val.v)
             ELSE IF val.kind = "dict"
                     /\ SubKeyLoop(val, <<"name", "nome", "title">>) # None
                  THEN SubKeyLoop(val, <<"name", "nome", "title">>)
                  ELSE CompanyKeyLoop(job, Tail(keys))

\* for key in ("company_name", "companyName", "empresa_nome"): ...
RECURSIVE FlatKeyLoop(_, _)
FlatKeyLoop(job, keys) ==
    IF keys = <<>> THEN None
    ELSE IF NonBlankStr(Get(job, Head(keys)))
         THEN Strip(Get(job, Head(keys)).v)
         ELSE FlatKeyLoop(job, Tail(keys))

_extract_company_name(job) ==
    IF job.kind # "dict" THEN <<>>
    ELSE IF CompanyKeyLoop(job, <<"company", "empresa">>) # None
         THEN CompanyKeyLoop(job, <<"company", "empresa">>)
         ELSE IF FlatKeyLoop(job, <<"company_name", "companyName", "empresa_nome">>) # None
              THEN FlatKeyLoop(job, <<"company_name", "companyName", "empresa_nome">>)
              ELSE <<>>

\* for k in keys: v = job.get(k); a non-blank string is returned stripped, an
\* object is unwrapped by its sub-keys name, title, nome
RECURSIVE PickKeyLoop(_, _)
PickKeyLoop(job, keys) ==
    IF keys = <<>> THEN None
    ELSE LET v == Get(job, Head(keys))
         IN  IF NonBlankStr(v) THEN Strip(v.v)
             ELSE IF v.kind = "dict"
                     /\ SubKeyLoop(v, <<"name", "title", "nome">>) # None
                  THEN SubKeyLoop(v, <<"name", "title", "nome">>)
                  ELSE PickKeyLoop(job, Tail(keys))

_pick_job_field(job, keys) ==
    IF PickKeyLoop(job, keys) # None THEN PickKeyLoop(job, keys) ELSE <<>>

(***************************************************************************)
(* _find_teamlyzer_company_slug: matching a company name against one page  *)
(***************************************************************************)
\* _norm(company_name).replace(" ", "-")
HyphenName(name) ==
    LET n == _norm(name)
    IN  [i \in 1..Len(n) |-> IF n[i] = SP THEN "-" ELSE n[i]]

\* re.sub(r"[^a-z0-9\-]+", "", _norm(company_name).replace(" ", "-"))
GuessSlug(name) ==
    SelectSeq(HyphenName(name),
              LAMBDA c : IsLowerAZ(c) \/ IsDigit(c) \/ c = "-")

\* the slugs that are not company profiles
ReservedSlugs ==
    { <<"r", "a", "n", "k", "i", "n", "g">>,
      <<"a", "w", "a", "r", "d", "s">>,
      <<"j", "o", "b", "s">>,
      <<"r", "e", "m", "o", "t", "e", "-", "c", "o", "m", "p", "a", "n", "i", "e", "s">> }

\* [a-z0-9\-]+ under re.I
IsSlugText(l) ==
    /\ l # <<>>
    /\ \A i \in 1..Len(l) :
          IsLowerAZ(l[i]) \/ IsUpperAZ(l[i]) \/ IsDigit(l[i]) \/ l[i] = "-"

\* remove duplicates, keep the order
RECURSIVE Dedup(_, _)
Dedup(seq, seen) ==
    IF seq = <<>> THEN <<>>
    ELSE IF Head(seq) \in seen THEN Dedup(Tail(seq), seen)
         ELSE <<Head(seq)>> \o Dedup(Tail(seq), seen \cup {Head(seq)})

\* extract_pairs(html): the profile-link slugs of the page
extract_pairs(links) ==
    Dedup(SelectSeq(links, LAMBDA l : IsSlugText(l) /\ l \notin ReservedSlugs), {})

\* re.search(rf'href="/companies/{re.escape(guess)}"', html, flags=re.I)
HrefSearch(guess, links) ==
    \E i \in 1..Len(links) : Lower(links[i]) = guess

\* re.search(rf"\b{re.escape(slug)}\b", name)
IsBoundary(str, k) ==
    (k >= 1 /\ IsWordChar(str[k])) # (k + 1 <= Len(str) /\ IsWordChar(str[k + 1]))
WordSearch(sl, str) ==
    \E i \in 0..(Len(str) - Len(sl)) :
        /\ SubSeq(str, i + 1, i + Len(sl)) = sl
        /\ IsBoundary(str, i)
        /\ IsBoundary(str, i + Len(sl))

\* for slug, _ in pairs: if <test>: return slug
FirstSlug(pairs, Test(_)) ==
    IF \E i \in 1..Len(pairs) : Test(pairs[i])
    THEN pairs[CHOOSE i \in 1..Len(pairs) :
                  Test(pairs[i]) /\ \A j \in 1..(i - 1) : ~Test(pairs[j])]
    ELSE None

\* body of the try block of the ranking page, given the page
RankingBody(name, html) ==
    LET target == _norm(name)
        text   == _html_to_text(html.body)
        bylink == FirstSlug(extract_pairs(html.links),
                            LAMBDA sl : sl # <<>>
                                          /\ IsSubstr(sl, HyphenName(name)))
        guess  == GuessSlug(name)
    IN  IF IsSubstr(target, _norm(text)) /\ bylink # None
        THEN Return(bylink)
        ELSE IF guess # <<>> /\ HrefSearch(guess, html.links)
             THEN Return(guess)
             ELSE Pass

\* A directory page whose links are tried before the guessed slug
DirectoryBody_LinkFirst(name, html) ==
    LET target == _norm(name)
        text   == _html_to_text(html.body)
        pairs  == extract_pairs(html.links)
        hyphen == HyphenName(name)
        guess  == GuessSlug(name)
        bylink == FirstSlug(pairs, LAMBDA sl : sl # <<>> /\ IsSubstr(sl, hyphen))
        byword == FirstSlug(pairs, LAMBDA sl : sl # <<>> /\ WordSearch(sl, hyphen))
    IN  IF IsSubstr(target, _norm(text))
        THEN IF bylink # None THEN Return(bylink)
             ELSE IF guess # <<>> /\ HrefSearch(guess, html.links)
                  THEN Return(guess)
                  ELSE IF byword # None THEN Return(byword)
                       ELSE Pass
        ELSE Pass

\* A directory page whose word-bounded match is tried before the parts
DirectoryBody_WordTierFirst(name, html) ==
    LET target == _norm(name)
        text   == _html_to_text(html.body)
        pairs  == extract_pairs(html.links)
        hyphen == HyphenName(name)
        guess  == GuessSlug(name)
        bylink == FirstSlug(pairs, LAMBDA sl : sl # <<>> /\ IsSubstr(sl, hyphen))
        byword == FirstSlug(pairs, LAMBDA sl : sl # <<>> /\ WordSearch(sl, hyphen))
    IN  IF IsSubstr(target, _norm(text))
        THEN IF guess # <<>> /\ HrefSearch(guess, html.links)
             THEN Return(guess)
             ELSE IF byword # None THEN Return(byword)
                  ELSE IF bylink # None THEN Return(bylink)
                       ELSE Pass
        ELSE Pass

\* body of the try block of one directory page, given the page
DirectoryBody(name, html) ==
    LET target == _norm(name)
        text   == _html_to_text(html.body)
        pairs  == extract_pairs(html.links)
        hyphen == HyphenName(name)
        guess  == GuessSlug(name)
        bylink == FirstSlug(pairs, LAMBDA sl : sl # <<>> /\ IsSubstr(sl, hyphen))
        byword == FirstSlug(pairs, LAMBDA sl : sl # <<>> /\ WordSearch(sl, hyphen))
    IN  IF IsSubstr(target, _norm(text))
        THEN IF guess # <<>> /\ HrefSearch(guess, html.links)
             THEN Return(guess)
             ELSE IF bylink # None THEN Return(bylink)
                  ELSE IF byword # None THEN Return(byword)
                       ELSE Pass
        ELSE Pass

\* A ranking block whose exception handler is missing
RankingTry_NoExcept(name, resp) ==
    IF resp.ok THEN RankingBody(name, resp) ELSE Raise

\* try: r = requests.get(.../companies/ranking); ... except Exception: pass
RankingTry(name, resp) ==
    IF resp.ok THEN RankingBody(name, resp) ELSE Pass

\* A directory block that gives up at the first failed page
DirectoryTry_Abort(name, resp) ==
    IF resp.ok THEN DirectoryBody(name, resp) ELSE Return(None)

\* try: r = requests.get(.../companies/?page=N); ... except Exception: continue
DirectoryTry(name, resp) ==
    IF resp.ok THEN DirectoryBody(name, resp) ELSE Pass

(***************************************************************************)
(* _scrape_teamlyzer_company: extraction from the converted page text.     *)
(* Words the regular expressions match as a whole are single tokens; each  *)
(* stands for the literal text in its name.                                *)
(***************************************************************************)
REVIEWS       == "Reviews"
VISAO_GERAL   == "Visão geral"
EMPREGO       == "Emprego"
ENTREVISTA    == "Entrevista"
SALARIO       == "Salário"
SEGUIR        == "Seguir"
SALARIO_MEDIO == "salário médio"
ENTRE         == "entre"
OS            == "os"
EURO1         == "1000€"
EURO2         == "2000€"
PROSE         == "sixty letters"    \* a run of 60 letters
BENEFICIOS    == "Benefícios e vantagens"
BENEFICIOS_LC == "beneficios e vantagens"
VALORES       == "Valores e cultura"

\* len() of one token
TokenLen(c) ==
    CASE c = PROSE -> 60
      [] c \in {REVIEWS, EMPREGO, SALARIO} -> 7
      [] c = VISAO_GERAL -> 11
      [] c = ENTREVISTA -> 10
      [] c = SEGUIR -> 6
      [] c = SALARIO_MEDIO -> 13
      [] c \in {ENTRE, EURO1, EURO2} -> 5
      [] c = OS -> 2
      [] c \in {BENEFICIOS, BENEFICIOS_LC} -> 22
      [] c = VALORES -> 17
      [] OTHER -> 1

\* len(str)
RECURSIVE TextLen(_)
TextLen(str) ==
    IF str = <<>> THEN 0 ELSE TokenLen(Head(str)) + TextLen(Tail(str))

\* float("d") / float("d.d"), counted in tenths
Float(tenths) == <<"float", tenths>>

DigitSeq == <<"0", "1", "2", "3", "4", "5", "6", "7", "8", "9">>
DigitValue(c) == (CHOOSE i \in 1..10 : DigitSeq[i] = c) - 1

\* \s*/\s*5 matches at position k of t
SlashFiveAt(t, k) ==
    LET slash == k + SpaceRun(SubSeq(t, k, Len(t)))
        five  == slash + 1 + SpaceRun(SubSeq(t, slash + 1, Len(t)))
    IN  /\ slash <= Len(t) /\ t[slash] = "/"
        /\ five <= Len(t) /\ t[five] = "5"

\* (\d(?:\.\d)?)\s*/\s*5 matches at position i of t: group 1 as a float
RatingAt(t, i) ==
    IF ~IsDigit(t[i]) THEN None
    ELSE IF /\ i + 2 <= Len(t) /\ t[i + 1] = "." /\ IsDigit(t[i + 2])
            /\ SlashFiveAt(t, i + 3)
         THEN Float(10 * DigitValue(t[i]) + DigitValue(t[i + 2]))
         ELSE IF SlashFiveAt(t, i + 1)
              THEN Float(10 * DigitValue(t[i]))
              ELSE None

\* A search that keeps the last match of the text
ExtractRating_Last(t) ==
    IF \E i \in 1..Len(t) : RatingAt(t, i) # None
    THEN RatingAt(t, CHOOSE i \in 1..Len(t) :
                        /\ RatingAt(t, i) # None
                        /\ \A j \in (i + 1)..Len(t) : RatingAt(t, j) = None)
    ELSE None

\* m = re.search(r"(\d(?:\.\d)?)\s*/\s*5", text); float(m.group(1)) if m
RECURSIVE RatingSearch(_, _)
RatingSearch(t, i) ==
    IF i > Len(t) THEN None
    ELSE IF RatingAt(t, i) # None THEN RatingAt(t, i)
         ELSE RatingSearch(t, i + 1)

ExtractRating(t) == RatingSearch(t, 1)

\* re.search(r"/5|Reviews|Visão geral|Emprego|Entrevista|Salário|Seguir", ln)
IsChrome(ln) ==
    \/ \E i \in 1..Len(ln) :
          ln[i] \in {REVIEWS, VISAO_GERAL, EMPREGO, ENTREVISTA, SALARIO, SEGUIR}
    \/ \E i \in 1..(Len(ln) - 1) : ln[i] = "/" /\ ln[i + 1] = "5"

DescriptionLines == 40

\* lines = [ln.strip() for ln in text.split("\n") if ln.strip()]
StrippedLines(t) ==
    LET raw == SplitLines(t)
    IN  SelectSeq([i \in 1..Len(raw) |-> Strip(raw[i])], LAMBDA ln : ln # <<>>)

\* first line of lines[:40] with len >= 60 that is not page chrome
ExtractDescription(t) ==
    LET lines == StrippedLines(t)
        head   == 1..(IF Len(lines) < DescriptionLines THEN Len(lines)
                     ELSE DescriptionLines)
        Ok(i) == TextLen(lines[i]) >= 60 /\ ~IsChrome(lines[i])
    IN  IF \E i \in head : Ok(i)
        THEN lines[CHOOSE i \in head : Ok(i) /\ \A j \in 1..(i - 1) : ~Ok(j)]
        ELSE None

\* r"sal[aá]rio m[eé]dio.*?entre\s+os\s+([^\.]+?)\s+e\s+([^\.]+?)\." under re.I
NoMatch == <<"no match">>
SpaceRunAt(t, k) == IF k > Len(t) THEN 0 ELSE SpaceRun(SubSeq(t, k, Len(t)))
HasDotFrom(t, b) == \E d \in b..Len(t) : t[d] = "."
FirstDotFrom(t, b) ==
    CHOOSE d \in b..Len(t) : t[d] = "." /\ \A j \in b..(d - 1) : t[j] # "."

\* \s+([^\.]+?)\. at position r: group 2
SalaryAfterE(t, r) ==
    LET run == SpaceRunAt(t, r)
        b   == r + run
    IN  IF run = 0 \/ b > Len(t) THEN NoMatch
        ELSE IF t[b] # "."
             THEN IF HasDotFrom(t, b)
                  THEN SubSeq(t, b, FirstDotFrom(t, b) - 1)
                  ELSE NoMatch
             ELSE IF run >= 2 THEN <<t[b - 1]>> ELSE NoMatch

\* \s+e\s+([^\.]+?)\. at position q: group 2
SalaryAtE(t, q) ==
    LET run == SpaceRunAt(t, q)
    IN  IF run >= 1 /\ q + run <= Len(t) /\ t[q + run] \in {"e", "E"}
        THEN SalaryAfterE(t, q + run + 1)
        ELSE NoMatch

\* \s+([^\.]+?)\s+e\s+([^\.]+?)\. at position p: groups 1 and 2
SalaryAfterOs(t, p) ==
    LET run == SpaceRunAt(t, p)
        a   == p + run
        Ends == {q \in (a + 1)..Len(t) :
                    /\ \A j \in a..(q - 1) : t[j] # "."
                    /\ SalaryAtE(t, q) # NoMatch}
    IN  IF run = 0 THEN NoMatch
        ELSE IF Ends # {}
             THEN LET q == CHOOSE q \in Ends : \A q2 \in Ends : q <= q2
                  IN  <<SubSeq(t, a, q - 1), SalaryAtE(t, q)>>
             ELSE IF /\ run >= 3 /\ a <= Len(t) /\ t[a] \in {"e", "E"}
                     /\ SalaryAfterE(t, a + 1) # NoMatch
                  THEN <<<<t[a - 2]>>, SalaryAfterE(t, a + 1)>>
                  ELSE NoMatch

\* entre\s+os... at position j
SalaryAtEntre(t, j) ==
    LET run == SpaceRunAt(t, j + 1)
        k   == j + 1 + run
    IN  IF t[j] = ENTRE /\ run >= 1 /\ k <= Len(t) /\ t[k] = OS
        THEN SalaryAfterOs(t, k + 1)
        ELSE NoMatch

\* the whole expression at position i
SalaryAt(t, i) ==
    LET Ends == {j \in (i + 1)..Len(t) :
                    /\ \A k \in (i + 1)..(j - 1) : t[k] # NL
                    /\ SalaryAtEntre(t, j) # NoMatch}
    IN  IF t[i] \in {SALARIO_MEDIO} /\ Ends # {}
        THEN SalaryAtEntre(t, CHOOSE j \in Ends : \A j2 \in Ends : j <= j2)
        ELSE NoMatch

\* f"entre {ms.group(1).strip()} e {ms.group(2).strip()}" if ms
ExtractSalary(t) ==
    LET Starts == {i \in 1..Len(t) : SalaryAt(t, i) # NoMatch}
    IN  IF Starts = {} THEN None
        ELSE LET ms == SalaryAt(t, CHOOSE i \in Starts : \A i2 \in Starts : i <= i2)
             IN  <<ENTRE, SP>> \o Strip(ms[1]) \o <<SP, "e", SP>> \o Strip(ms[2])

\* re.search(r"Benef[ií]cios e vantagens", s, flags=re.I)
IsBenefitsHeader(ln) == \E i \in 1..Len(ln) : ln[i] \in {BENEFICIOS, BENEFICIOS_LC}
\* re.search(r"Valores e cultura", s, flags=re.I)
IsValuesHeader(ln) == \E i \in 1..Len(ln) : ln[i] = VALORES

\* s.startswith("* ")
IsBullet(ln) == Len(ln) >= 2 /\ ln[1] = "*" /\ ln[2] = SP
\* s[2:].strip()
BulletTitle(ln) == Strip(SubSeq(ln, 3, Len(ln)))

\* A scan that stops at the values header wherever it stands
RECURSIVE CollectBenefits_EarlyStop(_, _)
CollectBenefits_EarlyStop(lines, in_benefits) ==
    IF lines = <<>> THEN <<>>
    ELSE LET ln == Strip(Head(lines))
         IN  IF IsBenefitsHeader(ln) THEN CollectBenefits_EarlyStop(Tail(lines), TRUE)
             ELSE IF IsValuesHeader(ln) THEN <<>>
             ELSE IF in_benefits /\ IsBullet(ln) /\ TextLen(BulletTitle(ln)) >= 3
                  THEN <<BulletTitle(ln)>>
                       \o CollectBenefits_EarlyStop(Tail(lines), in_benefits)
                  ELSE CollectBenefits_EarlyStop(Tail(lines), in_benefits)

\* for ln in text.split("\n"): ... benefits.append(title)
RECURSIVE CollectBenefits(_, _)
CollectBenefits(lines, in_benefits) ==
    IF lines = <<>> THEN <<>>
    ELSE LET ln == Strip(Head(lines))
         IN  IF IsBenefitsHeader(ln) THEN CollectBenefits(Tail(lines), TRUE)
             ELSE IF in_benefits /\ IsValuesHeader(ln) THEN <<>>
             ELSE IF in_benefits /\ IsBullet(ln) /\ TextLen(BulletTitle(ln)) >= 3
                  THEN <<BulletTitle(ln)>> \o CollectBenefits(Tail(lines), in_benefits)
                  ELSE CollectBenefits(Tail(lines), in_benefits)

\* for b in benefits: nb = _norm(b); if nb and nb not in seen: ...
RECURSIVE UniqueBenefits(_, _)
UniqueBenefits(bs, seen) ==
    IF bs = <<>> THEN <<>>
    ELSE LET nb == _norm(Head(bs))
         IN  IF nb # <<>> /\ nb \notin seen
             THEN <<Head(bs)>> \o UniqueBenefits(Tail(bs), seen \cup {nb})
             ELSE UniqueBenefits(Tail(bs), seen)

\* seq[:n]
SliceTo(seq, n) ==
    IF n >= 0 THEN SubSeq(seq, 1, IF n < Len(seq) THEN n ELSE Len(seq))
    ELSE SubSeq(seq, 1, Len(seq) + n)

\* the dict out of _scrape_teamlyzer_company
Profile(rating, description, bs, salary) ==
    [teamlyzer_rating |-> rating, teamlyzer_description |-> description,
     teamlyzer_benefits |-> bs, teamlyzer_salary |-> salary]
NullProfile == Profile(None, None, <<>>, None)
\* the profile before _scrape_teamlyzer_company has built it
Unset == Profile(<<"unset">>, <<"unset">>, <<>>, <<"unset">>)

FallbackPagesDefault == 3
TopBenefitsDefault   == 5
\* list_skills: the defaults of --pages and --top
PagesDefault == 3
TopDefault   == 10

(***************************************************************************)
(* JSON values (the decoded API payload)                                   *)
(***************************************************************************)
JList(items)   == [kind |-> "list", items |-> items]
JDict(members) == [kind |-> "dict", members |-> members]  \* members in order
JStr           == [kind |-> "str"]
JNull          == [kind |-> "null"]
Member(k, v)   == [key |-> k, val |-> v]

\* dict.get(key): the member's value, None (null) when the key is absent
dict_get(d, key) ==
    IF \E i \in 1..Len(d.members) : d.members[i].key = key
    THEN d.members[CHOOSE i \in 1..Len(d.members) : d.members[i].key = key].val
    ELSE JNull

(***************************************************************************)
(* _extract_jobs_from_response                                             *)
(***************************************************************************)
NoReturn == [kind |-> "fallthrough"]   \* a loop that ended without return

\* for key in (...): val = data.get(key); if isinstance(val, list): return val
RECURSIVE NamedKeyLoop(_, _)
NamedKeyLoop(d, keys) ==
    IF keys = <<>> THEN NoReturn
    ELSE LET val == dict_get(d, Head(keys))
         IN  IF val.kind = "list" THEN val ELSE NamedKeyLoop(d, Tail(keys))

\* for val in data.values(): if isinstance(val, list): return val
RECURSIVE ValuesLoop(_)
ValuesLoop(members) ==
    IF members = <<>> THEN NoReturn
    ELSE IF Head(members).val.kind = "list" THEN Head(members).val
         ELSE ValuesLoop(Tail(members))

WrapperKeys == <<"jobs", "results", "data", "items">>

\* The variant that looks at the members in member order only
extract_MemberOrderOnly(d) ==
    IF d.kind = "list" THEN d
    ELSE IF d.kind = "dict" /\ ValuesLoop(d.members) # NoReturn
         THEN ValuesLoop(d.members)
         ELSE JList(<<>>)

_extract_jobs_from_response(d) ==
    IF d.kind = "list" THEN d
    ELSE IF d.kind = "dict"
         THEN IF NamedKeyLoop(d, WrapperKeys) # NoReturn
              THEN NamedKeyLoop(d, WrapperKeys)
              ELSE IF ValuesLoop(d.members) # NoReturn
                   THEN ValuesLoop(d.members)
                   ELSE JList(<<>>)
         ELSE JList(<<>>)

(***************************************************************************)
(* Bounds                                                                  *)
(***************************************************************************)
MaxNormLen == 3
MaxMembers == 3

RECURSIVE StringsUpTo(_, _)
StringsUpTo(alphabet, n) ==
    IF n = 0 THEN {<<>>}
    ELSE LET shorter == StringsUpTo(alphabet, n - 1)
         IN  shorter \cup {Append(w, c) : w \in shorter, c \in alphabet}

NormAlphabet == {"a", "A", SP, EACUTE, SDIAER, TMSIGN}

NormInputs == StringsUpTo(NormAlphabet, MaxNormLen) \cup {None}

PayloadKeys   == {"jobs", "results", "data", "items", "total", "vagas"}
PayloadValues == {JList(<<"j1">>), JList(<<"j2">>), JStr, JDict(<<>>)}

\* objects of at most MaxMembers members, keys distinct
PayloadObjects ==
    {JDict(m) : m \in
        {m \in UNION {[1..n -> [key : PayloadKeys, val : PayloadValues]] :
                        n \in 0..MaxMembers} :
            \A i, j \in 1..Len(m) : i # j => m[i].key # m[j].key}}

Payloads == PayloadObjects \cup {JList(<<>>), JList(<<"j1", "j2">>), JStr, JNull}

(***************************************************************************)
(* Initial values of the variables a specification does not use           *)
(***************************************************************************)
NormIdle    == s = None /\ normed = None /\ renormed = None
ExtractIdle == data = JNull /\ jobs = JNull
TeamlyzerIdle ==
    /\ caller = "none"
    /\ job_json = VOther
    /\ company_name = None
    /\ max_pages_fallback = FallbackPagesDefault
    /\ page = 0
    /\ slug = None
    /\ top_benefits = TopBenefitsDefault
    /\ benefits = <<>>
    /\ out = Unset
    /\ fetched = <<>>
CliIdle ==
    /\ start_date = None
    /\ end_date = None
    /\ group = None
    /\ job_index = 0
    /\ counts = <<>>
    /\ matched_jobs = <<>>
    /\ stdout = None
    /\ csv_path = None
    /\ csv_file = None
    /\ exit_code = None
    /\ role = None
    /\ pages = PagesDefault
    /\ top = TopDefault
    /\ picked = None

(***************************************************************************)
(* Specification SpecNorm: _norm applied once and twice                    *)
(***************************************************************************)
InitNorm ==
    /\ pc = "norm"
    /\ s \in NormInputs
    /\ normed = None
    /\ renormed = None
    /\ ExtractIdle
    /\ CliIdle
    /\ TeamlyzerIdle

NormOnce ==
    /\ pc = "norm"
    /\ normed' = _norm(s)
    /\ pc' = "renorm"
    /\ UNCHANGED <<s, renormed, extractVars, teamlyzerVars, cliVars>>

NormTwice ==
    /\ pc = "renorm"
    /\ renormed' = _norm(normed)
    /\ pc' = "normed"
    /\ UNCHANGED <<s, normed, extractVars, teamlyzerVars, cliVars>>

NextNorm == NormOnce \/ NormTwice

SpecNorm == InitNorm /\ [][NextNorm]_vars

\* C2: _norm is idempotent: _norm(_norm(s)) = _norm(s) for every input s.
C2_NormIdempotent == pc = "normed" => renormed = normed

(***************************************************************************)
(* Specification SpecExtract: _extract_jobs_from_response on a payload     *)
(***************************************************************************)
InitExtract ==
    /\ pc = "extract"
    /\ data \in Payloads
    /\ jobs = JNull
    /\ NormIdle
    /\ TeamlyzerIdle
    /\ CliIdle

ExtractJobs ==
    /\ pc = "extract"
    /\ jobs' = _extract_jobs_from_response(data)
    /\ pc' = "extracted"
    /\ UNCHANGED <<data, normVars, teamlyzerVars, cliVars>>

NextExtract == ExtractJobs

SpecExtract == InitExtract /\ [][NextExtract]_vars

HasList(d, k) ==
    \E i \in 1..Len(d.members) :
        d.members[i].key = k /\ d.members[i].val.kind = "list"

ValueOf(d, k) ==
    d.members[CHOOSE i \in 1..Len(d.members) : d.members[i].key = k].val

IsWrapperKey(k) == \E n \in 1..Len(WrapperKeys) : WrapperKeys[n] = k

\* C1: the payload itself when it is an array; for an object the array
\* under the first of jobs, results, data, items whose value is an array,
\* whatever the member order; otherwise the first array-valued member in
\* member order; otherwise (no array member, or neither object nor array)
\* the empty list.
C1_ExtractShapes ==
    pc = "extracted" =>
        CASE data.kind = "list" -> jobs = data
          [] data.kind = "dict" ->
                IF \E n \in 1..Len(WrapperKeys) : HasList(data, WrapperKeys[n])
                THEN \E n \in 1..Len(WrapperKeys) :
                        /\ HasList(data, WrapperKeys[n])
                        /\ \A m \in 1..(n - 1) : ~HasList(data, WrapperKeys[m])
                        /\ jobs = ValueOf(data, WrapperKeys[n])
                ELSE IF \E i \in 1..Len(data.members) :
                            data.members[i].val.kind = "list"
                     THEN \E i \in 1..Len(data.members) :
                            /\ data.members[i].val.kind = "list"
                            /\ \A j \in 1..(i - 1) :
                                   data.members[j].val.kind # "list"
                            /\ jobs = data.members[i].val
                     ELSE jobs = JList(<<>>)
          [] OTHER -> jobs = JList(<<>>)

\* C1 witness: a wrapper key decided against the member order: the object
\* has an array under an unnamed key placed before the array under a
\* wrapper key, and a wrapper key of higher priority that holds no array.
C1_Witness ==
    /\ pc = "extracted"
    /\ data.kind = "dict"
    /\ Len(data.members) = 3
    /\ data.members[1].val.kind = "list"
    /\ ~IsWrapperKey(data.members[1].key)
    /\ data.members[2].key = "jobs"
    /\ data.members[2].val.kind # "list"
    /\ data.members[3].key = "data"
    /\ data.members[3].val.kind = "list"
    /\ jobs = data.members[3].val
    /\ jobs # data.members[1].val

(***************************************************************************)
(* enrich_job_with_teamlyzer, _find_teamlyzer_company_slug and             *)
(* _scrape_teamlyzer_company as steps; one step per request.  The server's *)
(* answer to a request is any page of the given set, or a failure.         *)
(***************************************************************************)
Request(url, n, resp) == [url |-> url, page |-> n, resp |-> resp]

\* where _find_teamlyzer_company_slug returns to
FindReturn == IF caller = "enrich" THEN "scrape" ELSE "found"
\* where _scrape_teamlyzer_company returns to
ScrapeReturn == IF caller = "enrich" THEN "enriched" ELSE "scraped"

\* enrich_job_with_teamlyzer up to the call of the resolver
EnrichJob ==
    /\ pc = "enrich"
    /\ IF job_json.kind # "dict"
       THEN /\ pc' = "enriched"
            /\ UNCHANGED <<company_name, slug>>
       ELSE /\ company_name' = _extract_company_name(job_json)
            /\ IF company_name' # <<>>
               THEN pc' = "find" /\ UNCHANGED slug
               ELSE pc' = "scrape" /\ slug' = None
    /\ UNCHANGED <<caller, job_json, max_pages_fallback, page, top_benefits,
                   benefits, out, fetched, normVars, extractVars, cliVars>>

\* A resolver that goes to the ranking page whatever the name
FindStart_NoGuard ==
    /\ pc = "find"
    /\ pc' = "ranking"
    /\ UNCHANGED <<slug, caller, job_json, company_name, max_pages_fallback,
                   page, top_benefits, benefits, out, fetched, normVars,
                   extractVars, cliVars>>

\* target = _norm(company_name); if not target: return None
FindStart ==
    /\ pc = "find"
    /\ IF _norm(company_name) = <<>>
       THEN pc' = FindReturn /\ slug' = None
       ELSE pc' = "ranking" /\ UNCHANGED slug
    /\ UNCHANGED <<caller, job_json, company_name, max_pages_fallback, page,
                   top_benefits, benefits, out, fetched, normVars, extractVars, cliVars>>

\* 1) ranking, and the entry of the fallback loop
FetchRanking(served) ==
    /\ pc = "ranking"
    /\ \E resp \in served \cup {Failure} :
          LET o == RankingTry(company_name, resp)
          IN  /\ fetched' = Append(fetched, Request("ranking", 0, resp))
              /\ CASE o.status = "return" ->
                        pc' = FindReturn /\ slug' = o.value /\ UNCHANGED page
                   [] o.status = "raise" ->
                        pc' = "raised" /\ UNCHANGED <<slug, page>>
                   [] OTHER ->
                        IF 1 <= max_pages_fallback
                        THEN pc' = "directory" /\ page' = 1 /\ UNCHANGED slug
                        ELSE pc' = FindReturn /\ slug' = None /\ UNCHANGED page
    /\ UNCHANGED <<caller, job_json, company_name, max_pages_fallback,
                   top_benefits, benefits, out, normVars, extractVars, cliVars>>

\* A fallback loop that scans one page more than the budget
FetchDirectory_OnePageMore(served) ==
    /\ pc = "directory"
    /\ \E resp \in served \cup {Failure} :
          LET o == DirectoryTry(company_name, resp)
          IN  /\ fetched' = Append(fetched, Request("companies", page, resp))
              /\ CASE o.status = "return" ->
                        pc' = FindReturn /\ slug' = o.value /\ UNCHANGED page
                   [] o.status = "raise" ->
                        pc' = "raised" /\ UNCHANGED <<slug, page>>
                   [] OTHER ->
                        IF page <= max_pages_fallback
                        THEN pc' = "directory" /\ page' = page + 1 /\ UNCHANGED slug
                        ELSE pc' = FindReturn /\ slug' = None /\ UNCHANGED page
    /\ UNCHANGED <<caller, job_json, company_name, max_pages_fallback,
                   top_benefits, benefits, out, normVars, extractVars, cliVars>>

\* 2) one iteration of for page in range(1, max_pages_fallback + 1)
FetchDirectory(served) ==
    /\ pc = "directory"
    /\ \E resp \in served \cup {Failure} :
          LET o == DirectoryTry(company_name, resp)
          IN  /\ fetched' = Append(fetched, Request("companies", page, resp))
              /\ CASE o.status = "return" ->
                        pc' = FindReturn /\ slug' = o.value /\ UNCHANGED page
                   [] o.status = "raise" ->
                        pc' = "raised" /\ UNCHANGED <<slug, page>>
                   [] OTHER ->
                        IF page + 1 <= max_pages_fallback
                        THEN pc' = "directory" /\ page' = page + 1 /\ UNCHANGED slug
                        ELSE pc' = FindReturn /\ slug' = None /\ UNCHANGED page
    /\ UNCHANGED <<caller, job_json, company_name, max_pages_fallback,
                   top_benefits, benefits, out, normVars, extractVars, cliVars>>

\* A scraper that requests the pages whatever the slug
ScrapeStart_NoGuard ==
    /\ pc = "scrape"
    /\ out' = NullProfile
    /\ pc' = "overview"
    /\ UNCHANGED <<caller, job_json, company_name, max_pages_fallback, page,
                   slug, top_benefits, benefits, fetched, normVars, extractVars, cliVars>>

\* out = {...}; if not slug: return out
ScrapeStart ==
    /\ pc = "scrape"
    /\ out' = NullProfile
    /\ pc' = IF OrEmpty(slug) = <<>> THEN ScrapeReturn ELSE "overview"
    /\ UNCHANGED <<caller, job_json, company_name, max_pages_fallback, page,
                   slug, top_benefits, benefits, fetched, normVars, extractVars, cliVars>>

\* the try block of the overview page: the profile after it
OverviewBody(o, resp) ==
    LET text == _html_to_text(resp.body)
        m    == ExtractRating(text)
        desc == ExtractDescription(text)
        ms   == ExtractSalary(text)
    IN  [o EXCEPT !.teamlyzer_rating      = IF m # None THEN m ELSE @,
                  !.teamlyzer_description = IF desc # None THEN desc ELSE @,
                  !.teamlyzer_salary      = IF ms # None THEN ms ELSE @]

\* An overview block whose exception handler is missing
OverviewTry_NoExcept(o, resp) ==
    IF resp.ok THEN [status |-> "pass", value |-> OverviewBody(o, resp)]
    ELSE [status |-> "raise", value |-> o]

\* try: r = requests.get(.../companies/{slug}); ... except Exception: pass
OverviewTry(o, resp) ==
    IF resp.ok THEN [status |-> "pass", value |-> OverviewBody(o, resp)]
    ELSE [status |-> "pass", value |-> o]

\* the try block of the benefits page: the collected bullets
BenefitsBody(resp) == CollectBenefits(SplitLines(_html_to_text(resp.body)), FALSE)

\* A selection that truncates before it removes the duplicates
TopUnique_TruncateFirst(bs, n) == UniqueBenefits(SliceTo(bs, n), {})

\* uniq[:top_benefits]
TopUnique(bs, n) == SliceTo(UniqueBenefits(bs, {}), n)

\* A benefits block whose handler starts the profile over
BenefitsTry_Reset(o, resp, n) ==
    IF resp.ok
    THEN [status |-> "pass",
          value |-> [o EXCEPT !.teamlyzer_benefits = TopUnique(BenefitsBody(resp), n)]]
    ELSE [status |-> "pass", value |-> NullProfile]

\* try: r = requests.get(.../benefits-and-values); ... except Exception: pass
BenefitsTry(o, resp, n) ==
    IF resp.ok
    THEN [status |-> "pass",
          value |-> [o EXCEPT !.teamlyzer_benefits = TopUnique(BenefitsBody(resp), n)]]
    ELSE [status |-> "pass", value |-> o]

\* the overview page
ScrapeOverview(served) ==
    /\ pc = "overview"
    /\ \E resp \in served \cup {Failure} :
          LET o == OverviewTry(out, resp)
          IN  /\ fetched' = Append(fetched, Request("overview", 0, resp))
              /\ out' = o.value
              /\ pc' = IF o.status = "raise" THEN "raised" ELSE "benefits"
    /\ UNCHANGED <<caller, job_json, company_name, max_pages_fallback, page,
                   slug, top_benefits, benefits, normVars, extractVars, cliVars>>

\* the benefits page, and the return
ScrapeBenefits(served) ==
    /\ pc = "benefits"
    /\ \E resp \in served \cup {Failure} :
          LET o == BenefitsTry(out, resp, top_benefits)
          IN  /\ fetched' = Append(fetched, Request("benefits", 0, resp))
              /\ benefits' = IF resp.ok THEN BenefitsBody(resp) ELSE benefits
              /\ out' = o.value
              /\ pc' = IF o.status = "raise" THEN "raised" ELSE ScrapeReturn
    /\ UNCHANGED <<caller, job_json, company_name, max_pages_fallback, page,
                   slug, top_benefits, normVars, extractVars, cliVars>>

(***************************************************************************)
(* Inputs of the specification Spec                                        *)
(***************************************************************************)
MaxPages == 3

Blip == <<"B", "l", "i", "p">>
blip == <<"b", "l", "i", "p">>
Acme == <<"A", "c", "m", "e">>
acme == <<"a", "c", "m", "e">>
bli  == <<"b", "l", "i">>
lip  == <<"l", "i", "p">>

CompanyNames ==
    {None, <<>>, <<SP, SP>>, <<ACUTE>>, Blip, <<"B", "L", "I", "P", SP>>}

Jobs ==
    { VOther,
      VObj(NoKeys),
      VObj([company |-> VStr(Blip)]),
      VObj([company |-> VStr(<<SP>>), empresa |-> VObj([nome |-> VStr(Blip)])]),
      VObj([company |-> VObj(NoKeys), company_name |-> VStr(<<SP, ACUTE>>)]) }

DirectoryPages ==
    { Page(<<blip>>, <<DIV, "B", "l", "i", "p", DIV>>),    \* name and link
      Page(<<acme>>, <<DIV, "A", "c", "m", "e", DIV>>),    \* another company
      Page(<<acme, blip>>, <<"A", "c", "m", "e">>),        \* link without name
      Page(<<>>, <<"B", "l", "i", "p">>),                  \* name without link
      \* the name, a link to a part of the name, then the link to the name
      Page(<<bli, blip>>, <<"B", "l", "i", "p">>),
      \* the name and links to two parts of the name
      Page(<<lip, bli, lip>>, <<"b", "l", "i", "p", NBSPREF>>),
      EmptyPage }

OverviewPages ==
    { Page(<<>>, <<"3", ".", "8", "/", "5", BR, REVIEWS, SP, PROSE, BR, PROSE, PCLOSE,
                   SALARIO_MEDIO, SP, "x", SP, ENTRE, SP, OS, SP, EURO1, SP, "e",
                   SP, EURO2, ".">>),
      Page(<<>>, <<"x", BR, "x">>) }

BenefitsPages ==
    { Page(<<>>, <<"*", SP, "x", "y", "z", BR, BENEFICIOS, BR, "*", SP, "a", "b", "c",
                   BR, "*", SP, "A", "B", "C", BR, VALORES, BR, "*", SP, "x", "y", "z">>),
      Page(<<>>, <<"x">>) }

Budgets == (0 - 1)..MaxPages

(***************************************************************************)
(* Specification Spec: a call of enrich_job_with_teamlyzer, of             *)
(* _find_teamlyzer_company_slug or of _scrape_teamlyzer_company            *)
(***************************************************************************)
Init ==
    /\ NormIdle
    /\ ExtractIdle
    /\ CliIdle
    /\ page = 0
    /\ benefits = <<>>
    /\ out = Unset
    /\ fetched = <<>>
    /\ max_pages_fallback \in Budgets
    /\ \/ /\ caller = "enrich" /\ pc = "enrich"
          /\ job_json \in Jobs
          /\ company_name = None /\ slug = None
          /\ top_benefits = TopBenefitsDefault
       \/ /\ caller = "find" /\ pc = "find"
          /\ job_json = VOther
          /\ company_name \in CompanyNames /\ slug = None
          /\ top_benefits = TopBenefitsDefault
       \/ /\ caller = "scrape" /\ pc = "scrape"
          /\ job_json = VOther
          /\ company_name = None /\ slug \in {None, <<>>, blip}
          /\ max_pages_fallback = FallbackPagesDefault
          /\ top_benefits \in {1, TopBenefitsDefault}

Next ==
    \/ EnrichJob
    \/ FindStart
    \/ FetchRanking(DirectoryPages)
    \/ FetchDirectory(DirectoryPages)
    \/ ScrapeStart
    \/ ScrapeOverview(OverviewPages)
    \/ ScrapeBenefits(BenefitsPages)

Spec == Init /\ [][Next]_vars

(***************************************************************************)
(* Properties of the resolver and of the scraper under Spec                *)
(***************************************************************************)
\* the requests of the resolver, in the order they were made
ResolverLog == SelectSeq(fetched, LAMBDA r : r.url \in {"ranking", "companies"})
\* the requests of the scraper
ScraperLog == SelectSeq(fetched, LAMBDA r : r.url \in {"overview", "benefits"})

\* _find_teamlyzer_company_slug has been called
FindCalled ==
    \/ caller = "find" /\ pc # "find"
    \/ /\ caller = "enrich" /\ pc \notin {"enrich", "find"}
       /\ job_json.kind = "dict" /\ company_name # <<>>

\* _find_teamlyzer_company_slug has returned
FindReturned == FindCalled /\ pc \notin {"ranking", "directory", "raised"}

\* an exception has left _find_teamlyzer_company_slug
FindRaised ==
    /\ pc = "raised" /\ fetched # <<>>
    /\ fetched[Len(fetched)].url \in {"ranking", "companies"}

\* C3: when the company name normalizes to the empty string the resolver
\* returns None at once: no ranking page, no directory page is requested
\* and no exception is raised.
C3_EmptyNameNoFetch ==
    (FindCalled /\ _norm(company_name) = <<>>) =>
        /\ FindReturned
        /\ slug = None
        /\ ResolverLog = <<>>

\* C3 witness: the resolver has returned for a whitespace-only name
C3_Witness ==
    /\ caller = "find" /\ pc = "found"
    /\ company_name = <<SP, SP>>
    /\ slug = None /\ fetched = <<>>

\* the page of a request resolves the name
Yields(name, r) ==
    /\ r.resp.ok
    /\ IF r.url = "ranking" THEN RankingBody(name, r.resp).status = "return"
       ELSE DirectoryBody(name, r.resp).status = "return"

\* number of pages the budget allows
BudgetPages == IF max_pages_fallback > 0 THEN max_pages_fallback ELSE 0

\* C4: for a company name that does not normalize to empty and any budget,
\* no exception leaves the resolver; it returns None or a slug; and it
\* returns None when neither the ranking page nor any of the directory
\* pages 1..budget yields a slug.
C4_NoneOrSlug ==
    /\ ~FindRaised
    /\ (FindReturned /\ _norm(company_name) # <<>>) =>
          /\ slug = None \/ IsSlugText(slug)
          /\ (\A i \in 1..Len(ResolverLog) : ~Yields(company_name, ResolverLog[i]))
                => (slug = None /\ Len(ResolverLog) = 1 + BudgetPages)

\* C4 witness: a scan of the ranking page and of three directory pages, some
\* failed and some without a match, has returned None
C4_Witness ==
    /\ caller = "find" /\ pc = "found"
    /\ company_name = Blip /\ max_pages_fallback = 3
    /\ Len(fetched) = 4
    /\ ~fetched[1].resp.ok /\ fetched[2].resp.ok
    /\ ~fetched[3].resp.ok /\ fetched[4].resp.ok
    /\ slug = None

\* the response with every failure replaced by a page without content
AsEmpty(resp) == IF resp.ok THEN resp ELSE EmptyPage

\* result of the scan in which request i of the log is the first to resolve
RECURSIVE ScanFrom(_, _, _)
ScanFrom(name, log, i) ==
    IF i > Len(log) THEN None
    ELSE LET o == IF log[i].url = "ranking"
                  THEN RankingBody(name, AsEmpty(log[i].resp))
                  ELSE DirectoryBody(name, AsEmpty(log[i].resp))
         IN  IF o.status = "return" THEN o.value ELSE ScanFrom(name, log, i + 1)

\* C5: a failed page counts as a page without a match: the ranking page is
\* followed by directory page 1, page k by page k+1 within the budget, and
\* the result is that of the same scan with every failed page empty.
C5_FailureIsNoMatch ==
    (FindCalled /\ _norm(company_name) # <<>>) =>
        /\ \A i \in 1..Len(ResolverLog) :
              /\ ResolverLog[i].url = (IF i = 1 THEN "ranking" ELSE "companies")
              /\ ResolverLog[i].page = i - 1
        /\ FindReturned =>
              /\ slug = ScanFrom(company_name, ResolverLog, 1)
              /\ slug = None => Len(ResolverLog) = 1 + BudgetPages
              /\ \A i \in 1..(Len(ResolverLog) - 1) :
                    ~Yields(company_name, ResolverLog[i])

\* C5 witness: the ranking page and directory page 1 failed, page 2 resolved
C5_Witness ==
    /\ caller = "find" /\ pc = "found"
    /\ Len(fetched) = 3
    /\ ~fetched[1].resp.ok /\ ~fetched[2].resp.ok
    /\ fetched[3].resp.ok /\ fetched[3].page = 2
    /\ slug = blip

\* _scrape_teamlyzer_company has returned
ScrapeReturned ==
    \/ caller = "scrape" /\ pc = "scraped"
    \/ caller = "enrich" /\ pc = "enriched" /\ job_json.kind = "dict"

\* C6: with an empty slug the scraper returns the all-null profile and
\* requests neither page; enrich_job_with_teamlyzer ends there when the job
\* has no company name or the resolver returned None.
C6_EmptySlugNullProfile ==
    /\ (caller = "scrape" /\ pc # "scrape" /\ OrEmpty(slug) = <<>>) =>
          pc = "scraped" /\ out = NullProfile /\ fetched = <<>>
    /\ (caller = "enrich" /\ job_json.kind = "dict"
        /\ pc \notin {"enrich", "find", "ranking", "directory", "scrape"}
        /\ (company_name = <<>> \/ slug = None)) =>
          pc = "enriched" /\ out = NullProfile /\ ScraperLog = <<>>

\* C6 witness: the resolver found nothing for the job's company and
\* enrich_job_with_teamlyzer returned the all-null profile
C6_Witness ==
    /\ caller = "enrich" /\ pc = "enriched"
    /\ company_name = Blip /\ slug = None
    /\ Len(fetched) >= 1 /\ ScraperLog = <<>>
    /\ out = NullProfile

\* an exception has left _scrape_teamlyzer_company
ScrapeRaised ==
    /\ pc = "raised" /\ fetched # <<>>
    /\ fetched[Len(fetched)].url \in {"overview", "benefits"}

OverviewFields(o) ==
    <<o.teamlyzer_rating, o.teamlyzer_description, o.teamlyzer_salary>>

\* C7: the two pages are handled independently: a failed overview page
\* leaves rating, description and salary null and the benefits page is
\* still requested and its benefits extracted; the benefits page, failed
\* or not, leaves rating, description and salary as they were, and a failed
\* one leaves the benefits empty; no failure raises.
C7_PagesIndependent ==
    /\ [](/\ ~ScrapeRaised
          /\ (pc = "benefits" /\ ~fetched[Len(fetched)].resp.ok) =>
                OverviewFields(out) = <<None, None, None>>
          /\ (ScrapeReturned /\ OrEmpty(slug) # <<>>) =>
                /\ Len(ScraperLog) = 2
                /\ ScraperLog[1].url = "overview" /\ ScraperLog[2].url = "benefits"
                /\ ~ScraperLog[1].resp.ok =>
                      OverviewFields(out) = <<None, None, None>>
                /\ ~ScraperLog[2].resp.ok => out.teamlyzer_benefits = <<>>
                /\ ScraperLog[2].resp.ok =>
                      out.teamlyzer_benefits = SliceTo(UniqueBenefits(benefits, {}), top_benefits))
    /\ [][pc = "benefits" => OverviewFields(out') = OverviewFields(out)]_vars

\* C7 witness: the overview page failed, the benefits page was requested
\* all the same and gave benefits
C7_Witness ==
    /\ caller = "scrape" /\ pc = "scraped"
    /\ Len(fetched) = 2
    /\ ~fetched[1].resp.ok /\ fetched[2].resp.ok
    /\ OverviewFields(out) = <<None, None, None>>
    /\ out.teamlyzer_benefits # <<>>

\* C7 second case: the benefits page failed after the overview page gave
\* rating, description and salary
C7_BenefitsFailed ==
    /\ caller = "scrape" /\ pc = "scraped"
    /\ Len(fetched) = 2
    /\ fetched[1].resp.ok /\ ~fetched[2].resp.ok
    /\ out.teamlyzer_rating = Float(38)
    /\ out.teamlyzer_description = <<PROSE>>
    /\ out.teamlyzer_salary = <<ENTRE, SP, EURO1, SP, "e", SP, EURO2>>
    /\ out.teamlyzer_benefits = <<>>

(***************************************************************************)
(* Specification SpecRating: _scrape_teamlyzer_company on overview pages   *)
(* made of digits, ".", "/" and spaces                                     *)
(***************************************************************************)
MaxRatingLen == 5

RatingAlphabet == {"3", "8", "5", ".", "/", SP}

RatingPages == {Page(<<>>, b) : b \in StringsUpTo(RatingAlphabet, MaxRatingLen)}

InitRating ==
    /\ NormIdle
    /\ ExtractIdle
    /\ CliIdle
    /\ caller = "scrape" /\ pc = "scrape"
    /\ job_json = VOther
    /\ company_name = None
    /\ max_pages_fallback = FallbackPagesDefault
    /\ page = 0
    /\ slug = blip
    /\ top_benefits = TopBenefitsDefault
    /\ benefits = <<>>
    /\ out = Unset
    /\ fetched = <<>>

NextRating ==
    \/ ScrapeStart
    \/ ScrapeOverview(RatingPages)
    \/ ScrapeBenefits({EmptyPage})

SpecRating == InitRating /\ [][NextRating]_vars

\* the overview page has been fetched and converted
OverviewDone ==
    /\ pc \in {"benefits", "scraped"}
    /\ fetched[1].url = "overview" /\ fetched[1].resp.ok
OverviewText == _html_to_text(fetched[1].resp.body)

\* a number of n characters (digit, or digit "." digit) stands at position i
NumberAt(t, i, n) ==
    /\ i + n - 1 <= Len(t)
    /\ IsDigit(t[i])
    /\ n = 3 => (t[i + 1] = "." /\ IsDigit(t[i + 2]))
\* optional spaces, "/", optional spaces, "5" follow from position k
SlashFiveFrom(t, k) ==
    \E j \in k..Len(t), m \in (k + 1)..Len(t) :
        /\ j < m
        /\ \A x \in k..(j - 1) : IsSpace(t[x])
        /\ t[j] = "/"
        /\ \A x \in (j + 1)..(m - 1) : IsSpace(t[x])
        /\ t[m] = "5"
\* the occurrences of "digit[.digit] / 5": start and length of the number
RatingOccurrences(t) ==
    {o \in (1..Len(t)) \X {1, 3} :
        NumberAt(t, o[1], o[2]) /\ SlashFiveFrom(t, o[1] + o[2])}
NumberValue(t, o) ==
    IF o[2] = 1 THEN 10 * DigitValue(t[o[1]])
    ELSE 10 * DigitValue(t[o[1]]) + DigitValue(t[o[1] + 2])

\* C8: the rating is null exactly when the converted overview text has no
\* occurrence of "digit[.digit] / 5"; otherwise it is the number of the
\* first occurrence, whatever follows.
C8_RatingFirstOccurrence ==
    OverviewDone =>
        LET occ == RatingOccurrences(OverviewText)
        IN  IF occ = {} THEN out.teamlyzer_rating = None
            ELSE \E o \in occ :
                    /\ \A o2 \in occ : o[1] <= o2[1]
                    /\ out.teamlyzer_rating = Float(NumberValue(OverviewText, o))

\* C8 witness: "8/5/5" holds the occurrences 8/5 and 5/5; the rating is 8.0
C8_Witness ==
    /\ pc = "scraped"
    /\ fetched[1].resp.ok
    /\ fetched[1].resp.body = <<"8", "/", "5", "/", "5">>
    /\ out.teamlyzer_rating = Float(80)

\* C8, the example of the specification: "3.8/5" gives 3.8
C8_Example ==
    /\ pc = "scraped"
    /\ fetched[1].resp.ok
    /\ fetched[1].resp.body = <<"3", ".", "8", "/", "5">>
    /\ out.teamlyzer_rating = Float(38)

(***************************************************************************)
(* Specification SpecBenefits: _scrape_teamlyzer_company on benefits pages *)
(* made of section headers and bullet lines                                *)
(***************************************************************************)
MaxBenefitLines == 4
MaxTop == 2

BenefitLineMenu ==
    { <<BENEFICIOS>>,
      <<"x", SP, BENEFICIOS_LC, SP, VALORES>>,
      <<VALORES>>,
      <<"*", SP, "a", "b", "c">>,
      <<"*", SP, "A", "B", "C">>,
      <<"*", SP, "a", "b">>,
      <<"*", SP, "x", "y", "z">>,
      <<"*", SP, ACUTE, ACUTE, ACUTE>> }

\* the lines as one page, each line closed by <br>
RECURSIVE JoinLines(_)
JoinLines(lines) ==
    IF lines = <<>> THEN <<>>
    ELSE Head(lines) \o <<BR>> \o JoinLines(Tail(lines))

BenefitPagesOfLines ==
    {Page(<<>>, JoinLines(ls)) :
        ls \in UNION {[1..n -> BenefitLineMenu] : n \in 0..MaxBenefitLines}}

InitBenefits ==
    /\ NormIdle
    /\ ExtractIdle
    /\ CliIdle
    /\ caller = "scrape" /\ pc = "scrape"
    /\ job_json = VOther
    /\ company_name = None
    /\ max_pages_fallback = FallbackPagesDefault
    /\ page = 0
    /\ slug = blip
    /\ top_benefits \in 0..MaxTop
    /\ benefits = <<>>
    /\ out = Unset
    /\ fetched = <<>>

NextBenefits ==
    \/ ScrapeStart
    \/ ScrapeOverview({EmptyPage})
    \/ ScrapeBenefits(BenefitPagesOfLines)

SpecBenefits == InitBenefits /\ [][NextBenefits]_vars

\* the benefits page has been fetched and converted
BenefitsDone ==
    /\ pc = "scraped" /\ Len(fetched) = 2
    /\ fetched[2].url = "benefits" /\ fetched[2].resp.ok
\* the stripped lines of the converted benefits page
BenefitLines ==
    LET raw == SplitLines(_html_to_text(fetched[2].resp.body))
    IN  [i \in 1..Len(raw) |-> Strip(raw[i])]

\* line i is a bullet and some earlier line is the benefits header
AfterStart(L, i) == \E h \in 1..(i - 1) : IsBenefitsHeader(L[h])
\* line j ends the section: the values header, seen after the benefits header
EndsSection(L, j) ==
    IsValuesHeader(L[j]) /\ ~IsBenefitsHeader(L[j]) /\ AfterStart(L, j)
\* line i is collected
InSection(L, i) ==
    /\ IsBullet(L[i]) /\ ~IsBenefitsHeader(L[i])
    /\ AfterStart(L, i)
    /\ \A j \in 1..i : ~EndsSection(L, j)
    /\ TextLen(Strip(SubSeq(L[i], 3, Len(L[i])))) >= 3

\* the bullets of the lines of a set, in line order
TitlesOf(L, keep) ==
    LET F[k \in 0..Len(L)] ==
            IF k = 0 THEN <<>>
            ELSE IF k \in keep
                 THEN Append(F[k - 1], Strip(SubSeq(L[k], 3, Len(L[k]))))
                 ELSE F[k - 1]
    IN  F[Len(L)]

\* C9: the collected bullets are the bullet lines that stand after a line
\* with the benefits header and before the first later line with the values
\* header (or the end of the text), less those whose text is shorter than 3
\* characters; a bullet before the benefits header or after the values
\* header is not collected, and a values header before the benefits header
\* does not end the scan.
C9_BulletsBetweenHeaders ==
    BenefitsDone =>
        LET L == BenefitLines
        IN  benefits = TitlesOf(L, {i \in 1..Len(L) : InSection(L, i)})

\* C9 witness: a bullet and the values header stand before the benefits
\* header; only the bullet after the benefits header is collected
C9_Witness ==
    /\ BenefitsDone
    /\ Len(BenefitLines) = 4
    /\ IsBullet(BenefitLines[1])
    /\ BenefitLines[2] = <<VALORES>>
    /\ BenefitLines[3] = <<BENEFICIOS>>
    /\ IsBullet(BenefitLines[4])
    /\ benefits = <<<<"a", "b", "c">>>>

\* C9, second case: the bullet after the values header is left out
C9_AfterEnd ==
    /\ BenefitsDone
    /\ Len(BenefitLines) = 4
    /\ BenefitLines[1] = <<BENEFICIOS>>
    /\ BenefitLines[2] = <<"*", SP, "a", "b">>
    /\ BenefitLines[3] = <<VALORES>>
    /\ BenefitLines[4] = <<"*", SP, "x", "y", "z">>
    /\ benefits = <<>>

\* bullet i has the normalized text of no earlier bullet
FirstOfItsText(B, i) == \A j \in 1..(i - 1) : _norm(B[j]) # _norm(B[i])

\* the first n elements
FirstN(seq, n) == SubSeq(seq, 1, IF n < Len(seq) THEN n ELSE Len(seq))

\* C10 as stated: the list is the first N of the collected bullets without
\* those whose normalized text is that of an earlier bullet; its length is
\* min(N, number of distinct normalized texts).
C10_DistinctTopN ==
    BenefitsDone =>
        LET keep  == {i \in 1..Len(benefits) : FirstOfItsText(benefits, i)}
            texts == {_norm(benefits[i]) : i \in 1..Len(benefits)}
        IN  /\ out.teamlyzer_benefits = FirstN(TitlesOf(
                    [i \in 1..Len(benefits) |-> <<"*", SP>> \o benefits[i]], keep),
                    top_benefits)
            /\ Len(out.teamlyzer_benefits) =
                    (IF top_benefits < Cardinality(texts) THEN top_benefits
                     ELSE Cardinality(texts))

\* C10 amended: as C10, the bullets whose normalized text is empty being
\* removed too and not counted; no two entries have the same normalized
\* text.
C10_DistinctNonEmptyTopN ==
    BenefitsDone =>
        LET keep  == {i \in 1..Len(benefits) :
                        _norm(benefits[i]) # <<>> /\ FirstOfItsText(benefits, i)}
            texts == {_norm(benefits[i]) : i \in 1..Len(benefits)} \ {<<>>}
            U     == out.teamlyzer_benefits
        IN  /\ U = FirstN(TitlesOf(
                    [i \in 1..Len(benefits) |-> <<"*", SP>> \o benefits[i]], keep),
                    top_benefits)
            /\ Len(U) = (IF top_benefits < Cardinality(texts) THEN top_benefits
                         ELSE Cardinality(texts))
            /\ \A i, j \in 1..Len(U) : i # j => _norm(U[i]) # _norm(U[j])

\* C10 witness: of the bullets abc, ABC, xyz and N = 2 the list is abc, xyz
C10_Witness ==
    /\ BenefitsDone
    /\ top_benefits = 2
    /\ benefits = << <<"a", "b", "c">>, <<"A", "B", "C">>, <<"x", "y", "z">> >>
    /\ out.teamlyzer_benefits = << <<"a", "b", "c">>, <<"x", "y", "z">> >>

(***************************************************************************)
(* Jobs of the itjobs API as the commands see them: json.dumps, dict.get   *)
(* with a default, str().  A key is one token: the keys are words without  *)
(* digits, hyphens or quotes.                                              *)
(***************************************************************************)
JText(v) == [kind |-> "str", v |-> v]
JInt(n)  == [kind |-> "int", n |-> n]

\* d.get(key, default)
dict_get_default(d, key, default) ==
    IF \E i \in 1..Len(d.members) : d.members[i].key = key
    THEN d.members[CHOOSE i \in 1..Len(d.members) : d.members[i].key = key].val
    ELSE default

\* str(n) for n >= 0
RECURSIVE IntDigits(_)
IntDigits(n) ==
    IF n < 10 THEN <<DigitSeq[n + 1]>>
    ELSE IntDigits(n \div 10) \o <<DigitSeq[(n % 10) + 1]>>

\* json.dumps of one character of a string (ensure_ascii is on)
JsonEscapeChar(c) ==
    CASE c = "\"" -> <<"\\", "\"">>
      [] c = "\\" -> <<"\\", "\\">>
      [] c = NL   -> <<"\\", "n">>
      [] c = TAB  -> <<"\\", "t">>
      [] c = NBSP   -> <<"\\", "u", "0", "0", "a", "0">>
      [] c = SDIAER -> <<"\\", "u", "0", "0", "a", "8">>
      [] c = ECAP   -> <<"\\", "u", "0", "0", "c", "9">>
      [] c = EACUTE -> <<"\\", "u", "0", "0", "e", "9">>
      [] c = ACUTE  -> <<"\\", "u", "0", "3", "0", "1">>
      [] c = DIAER  -> <<"\\", "u", "0", "3", "0", "8">>
      [] c = TMSIGN -> <<"\\", "u", "2", "1", "2", "2">>
      [] OTHER -> <<c>>

RECURSIVE JsonEscape(_)
JsonEscape(str) ==
    IF str = <<>> THEN <<>> ELSE JsonEscapeChar(Head(str)) \o JsonEscape(Tail(str))

\* json.dumps(value)
RECURSIVE json_dumps(_)
RECURSIVE DumpMembers(_)
RECURSIVE DumpItems(_)
DumpMembers(members) ==
    IF members = <<>> THEN <<>>
    ELSE <<"\"", Head(members).key, "\"", ":", SP>>
         \o json_dumps(Head(members).val)
         \o (IF Tail(members) = <<>> THEN <<>> ELSE <<",", SP>>)
         \o DumpMembers(Tail(members))
DumpItems(items) ==
    IF items = <<>> THEN <<>>
    ELSE json_dumps(Head(items))
         \o (IF Tail(items) = <<>> THEN <<>> ELSE <<",", SP>>)
         \o DumpItems(Tail(items))
json_dumps(v) ==
    CASE v.kind = "str"  -> <<"\"">> \o JsonEscape(v.v) \o <<"\"">>
      [] v.kind = "int"  -> IntDigits(v.n)
      [] v.kind = "null" -> <<"n", "u", "l", "l">>
      [] v.kind = "list" -> <<"[">> \o DumpItems(v.items) \o <<"]">>
      [] v.kind = "dict" -> <<"{">> \o DumpMembers(v.members) \o <<"}">>

(***************************************************************************)
(* Dates                                                                   *)
(***************************************************************************)
ValueError == <<"ValueError">>

\* \d{4}-\d{2}-\d{2} matches at position i of t
DateAt(t, i) ==
    /\ i + 9 <= Len(t)
    /\ \A k \in {0, 1, 2, 3, 5, 6, 8, 9} : IsDigit(t[i + k])
    /\ t[i + 4] = "-" /\ t[i + 7] = "-"

\* date_re.search(text): group 1 of the first match, None without a match
date_re_search(t) ==
    IF \E i \in 1..Len(t) : DateAt(t, i)
    THEN LET i == CHOOSE i \in 1..Len(t) :
                     DateAt(t, i) /\ \A j \in 1..(i - 1) : ~DateAt(t, j)
         IN  SubSeq(t, i, i + 9)
    ELSE None

\* int() of a run of digits
RECURSIVE Number(_)
Number(ds) ==
    IF ds = <<>> THEN 0
    ELSE 10 * Number(SubSeq(ds, 1, Len(ds) - 1)) + DigitValue(ds[Len(ds)])

IsLeap(y) == (y % 4 = 0 /\ y % 100 # 0) \/ y % 400 = 0
DaysInMonth(y, m) ==
    CASE m \in {4, 6, 9, 11} -> 30
      [] m = 2 -> IF IsLeap(y) THEN 29 ELSE 28
      [] OTHER -> 31

\* date.fromisoformat on a string YYYY-MM-DD: the date as <<year, month, day>>
fromisoformat(str) ==
    IF ~(Len(str) = 10 /\ DateAt(str, 1)) THEN ValueError
    ELSE LET y == Number(SubSeq(str, 1, 4))
             m == Number(SubSeq(str, 6, 7))
             d == Number(SubSeq(str, 9, 10))
         IN  IF y >= 1 /\ m \in 1..12 /\ d >= 1 /\ d <= DaysInMonth(y, m)
             THEN <<y, m, d>>
             ELSE ValueError

\* a <= b for dates
DateLE(a, b) ==
    \/ a[1] < b[1]
    \/ a[1] = b[1] /\ a[2] < b[2]
    \/ a[1] = b[1] /\ a[2] = b[2] /\ a[3] <= b[3]

(***************************************************************************)
(* _normalize_job_for_csv and _export_to_csv.  The written file is the     *)
(* sequence of its records, the header record first; a record is the       *)
(* sequence of its fields.                                                 *)
(***************************************************************************)
\* repr(value), for strings without quotes, backslashes or control characters
RECURSIVE py_repr(_)
RECURSIVE ReprMembers(_)
RECURSIVE ReprItems(_)
ReprMembers(members) ==
    IF members = <<>> THEN <<>>
    ELSE <<"'", Head(members).key, "'", ":", SP>>
         \o py_repr(Head(members).val)
         \o (IF Tail(members) = <<>> THEN <<>> ELSE <<",", SP>>)
         \o ReprMembers(Tail(members))
ReprItems(items) ==
    IF items = <<>> THEN <<>>
    ELSE py_repr(Head(items))
         \o (IF Tail(items) = <<>> THEN <<>> ELSE <<",", SP>>)
         \o ReprItems(Tail(items))
py_repr(v) ==
    CASE v.kind = "str"  -> <<"'">> \o v.v \o <<"'">>
      [] v.kind = "int"  -> IntDigits(v.n)
      [] v.kind = "null" -> <<"N", "o", "n", "e">>
      [] v.kind = "list" -> <<"[">> \o ReprItems(v.items) \o <<"]">>
      [] v.kind = "dict" -> <<"{">> \o ReprMembers(v.members) \o <<"}">>

\* str(value)
str_of(v) == IF v.kind = "str" THEN v.v ELSE py_repr(v)

\* bool(value)
Truthy(v) ==
    CASE v.kind = "str"  -> v.v # <<>>
      [] v.kind = "int"  -> v.n # 0
      [] v.kind = "null" -> FALSE
      [] v.kind = "list" -> v.items # <<>>
      [] v.kind = "dict" -> v.members # <<>>

\* pick(obj, *keys): the first value that is true, "" without one
RECURSIVE pick(_, _)
pick(obj, keys) ==
    IF keys = <<>> THEN JText(<<>>)
    ELSE IF Truthy(dict_get(obj, Head(keys))) THEN dict_get(obj, Head(keys))
         ELSE pick(obj, Tail(keys))

\* the row of a job: its six fields, in the order the dict is built
_normalize_job_for_csv(job) ==
    << Member("titulo", str_of(pick(job, <<"title", "titulo", "job_title">>))),
       Member("empresa", str_of(pick(job, <<"company", "empresa", "company_name">>))),
       Member("descricao",
              str_of(pick(job, <<"description", "descricao", "job_description">>))),
       Member("data_de_publicacao",
              str_of(pick(job, <<"date", "date_published", "published_at", "data">>))),
       Member("salario", str_of(pick(job, <<"salary", "salario">>))),
       Member("localizacao", str_of(pick(job, <<"location", "localidade", "city">>))) >>

\* the header written for an empty list
EmptyListHeaders ==
    <<"titulo", "empresa", "descricao", "data_de_publicacao", "salario",
      "localizacao">>

\* list(row.keys())
KeysOf(row) == [k \in 1..Len(row) |-> row[k].key]

\* DictWriter.writerow(row): the fields of the row in the order of fieldnames
WriteRow(fieldnames, row) ==
    [k \in 1..Len(fieldnames) |->
        row[CHOOSE m \in 1..Len(row) : row[m].key = fieldnames[k]].val]

\* An export that writes nothing for an empty list
_export_to_csv_NoHeader(items) ==
    IF items = <<>> THEN <<>>
    ELSE LET rows == [i \in 1..Len(items) |-> _normalize_job_for_csv(items[i])]
         IN  <<KeysOf(rows[1])>>
             \o [i \in 1..Len(rows) |-> WriteRow(KeysOf(rows[1]), rows[i])]

\* _export_to_csv(jobs, path): the records of the file
_export_to_csv(items) ==
    IF items = <<>> THEN <<EmptyListHeaders>>
    ELSE LET rows    == [i \in 1..Len(items) |-> _normalize_job_for_csv(items[i])]
             headers == KeysOf(rows[1])
         IN  <<headers>> \o [i \in 1..Len(rows) |-> WriteRow(headers, rows[i])]

(***************************************************************************)
(* The skills command                                                      *)
(***************************************************************************)
skills_list ==
    << <<"p", "y", "t", "h", "o", "n">>,
       <<"j", "a", "v", "a">>,
       <<"j", "a", "v", "a", "s", "c", "r", "i", "p", "t">>,
       <<"c", "#">>,
       <<"p", "h", "p">>,
       <<"s", "q", "l">>,
       <<"a", "w", "s">>,
       <<"d", "o", "c", "k", "e", "r">>,
       <<"k", "u", "b", "e", "r", "n", "e", "t", "e", "s">>,
       <<"r", "e", "a", "c", "t">>,
       <<"a", "n", "g", "u", "l", "a", "r">> >>

\* requests.get(...) / raise_for_status() / resp.json() raised
RequestFailed == [kind |-> "error"]

\* r"\b" + re.escape(skill) + r"\b" matches at offset i of the text
SkillAt(skill, text, i) ==
    /\ i + Len(skill) <= Len(text)
    /\ SubSeq(text, i + 1, i + Len(skill)) = skill
    /\ IsBoundary(text, i)
    /\ IsBoundary(text, i + Len(skill))

\* len(re.findall(...)): the matches from offset i on, none overlapping
RECURSIVE findall(_, _, _)
findall(skill, text, i) ==
    IF i + Len(skill) > Len(text) THEN 0
    ELSE IF SkillAt(skill, text, i)
         THEN 1 + findall(skill, text, i + Len(skill))
         ELSE findall(skill, text, i + 1)

\* A date search that passes over the matches that are no dates
JobDate_FirstValid(job) ==
    LET t     == Lower(json_dumps(job))
        valid == {i \in 1..Len(t) :
                    DateAt(t, i) /\ fromisoformat(SubSeq(t, i, i + 9)) # ValueError}
    IN  IF valid # {}
        THEN fromisoformat(SubSeq(t, CHOOSE i \in valid : \A j \in valid : i <= j,
                                  (CHOOSE i \in valid : \A j \in valid : i <= j) + 9))
        ELSE IF \E i \in 1..Len(t) : DateAt(t, i) THEN ValueError ELSE None

\* m = date_re.search(json.dumps(job).lower()); jd = date.fromisoformat(...)
\* None without a match, ValueError for a match that is no date
JobDate(job) ==
    LET m == date_re_search(Lower(json_dumps(job)))
    IN  IF m = None THEN None ELSE fromisoformat(m)

\* A window without its two end days
InWindow_Exclusive(s_date, jd, e_date) ==
    DateLE(s_date, jd) /\ DateLE(jd, e_date) /\ jd # s_date /\ jd # e_date

\* s_date <= jd <= e_date
InWindow(s_date, jd, e_date) == DateLE(s_date, jd) /\ DateLE(jd, e_date)

\* (str(job.get("title", "")) + " " + str(job.get("description", ""))).lower()
Content(job) ==
    Lower(str_of(dict_get_default(job, "title", JText(<<>>)))
          \o <<SP>>
          \o str_of(dict_get_default(job, "description", JText(<<>>))))

\* counts: {k: 0 for k in skills_list}, in the order of the dict
Counter(k, n) == [key |-> k, n |-> n]
ZeroCounts == [i \in 1..Len(skills_list) |-> Counter(skills_list[i], 0)]

\* for skill in skills_list: ... counts[skill] += len(matches)
CountSkills(cnt, text) ==
    [i \in 1..Len(cnt) |-> Counter(cnt[i].key, cnt[i].n + findall(cnt[i].key, text, 0))]

\* found, after the loop over the skills
Found(text) == \E i \in 1..Len(skills_list) : findall(skills_list[i], text, 0) > 0

\* A list that takes every job of the window
KeepMatched_All(matched, job, found) == Append(matched, job)

\* if found: matched_jobs.append(job)
KeepMatched(matched, job, found) == IF found THEN Append(matched, job) ELSE matched

\* sorted(items, key=lambda x: x[1], reverse=True): one insertion; the sort
\* is stable, equal counts keep their order
InsertDesc(sorted, e) ==
    LET k == Cardinality({i \in 1..Len(sorted) : sorted[i].n >= e.n})
    IN  SubSeq(sorted, 1, k) \o <<e>> \o SubSeq(sorted, k + 1, Len(sorted))
RECURSIVE SortDesc(_)
SortDesc(items) ==
    IF items = <<>> THEN <<>>
    ELSE InsertDesc(SortDesc(SubSeq(items, 1, Len(items) - 1)), items[Len(items)])

\* An output that keeps the order of the vocabulary
ordered_Unsorted(cnt) == SelectSeq(cnt, LAMBDA e : e.n > 0)

\* ordered = dict(sorted({k: v for k, v in counts.items() if v > 0}.items(), ...))
ordered(cnt) == SortDesc(SelectSeq(cnt, LAMBDA e : e.n > 0))

\* s_date = date.fromisoformat(start_date); e_date = ...; exit 1 on an error
SkillsStart ==
    /\ pc = "skills"
    /\ IF fromisoformat(start_date) = ValueError \/ fromisoformat(end_date) = ValueError
       THEN pc' = "exit" /\ exit_code' = 1
       ELSE pc' = "list_jobs" /\ UNCHANGED exit_code
    /\ UNCHANGED <<start_date, end_date, group, job_index, counts, matched_jobs, stdout,
                   csv_path, csv_file, role, pages, top, picked, normVars, extractVars,
                   teamlyzerVars>>

\* resp = list_jobs(limit); data = resp.json(); jobs = _extract_jobs_from_response(data)
SkillsListJobs(payloads) ==
    /\ pc = "list_jobs"
    /\ \E resp \in payloads \cup {RequestFailed} :
          IF resp = RequestFailed
          THEN /\ pc' = "exit" /\ exit_code' = 1
               /\ UNCHANGED <<data, jobs, counts, matched_jobs, job_index>>
          ELSE /\ data' = resp
               /\ jobs' = _extract_jobs_from_response(resp)
               /\ matched_jobs' = <<>>
               /\ counts' = ZeroCounts
               /\ job_index' = 0
               /\ pc' = "jobs_loop"
               /\ UNCHANGED exit_code
    /\ UNCHANGED <<start_date, end_date, group, stdout, csv_path, csv_file, role,
                   pages, top, picked, normVars, teamlyzerVars>>

\* one iteration of for job in jobs
SkillsJob ==
    /\ pc = "jobs_loop"
    /\ job_index < Len(jobs.items)
    /\ LET job  == jobs.items[job_index + 1]
           jd   == JobDate(job)
           text == Content(job)
       IN  IF jd = None \/ jd = ValueError
              \/ ~InWindow(fromisoformat(start_date), jd, fromisoformat(end_date))
           THEN UNCHANGED <<counts, matched_jobs>>
           ELSE /\ counts' = CountSkills(counts, text)
                /\ matched_jobs' = KeepMatched(matched_jobs, job, Found(text))
    /\ job_index' = job_index + 1
    /\ UNCHANGED <<pc, start_date, end_date, group, stdout, csv_path, csv_file,
                   exit_code, role, pages, top, picked, normVars, extractVars,
                   teamlyzerVars>>

\* typer.echo(json.dumps([ordered], ...)); if csv_path: _export_to_csv(...)
SkillsOutput ==
    /\ pc = "jobs_loop"
    /\ job_index = Len(jobs.items)
    /\ stdout' = <<ordered(counts)>>
    /\ csv_file' = IF csv_path # None THEN _export_to_csv(matched_jobs) ELSE csv_file
    /\ exit_code' = 0
    /\ pc' = "exit"
    /\ UNCHANGED <<start_date, end_date, group, job_index, counts, matched_jobs,
                   csv_path, role, pages, top, picked, normVars, extractVars,
                   teamlyzerVars>>

(***************************************************************************)
(* Specification SpecSkills: the skills command on a list of jobs          *)
(***************************************************************************)
MaxJobs == 3

D_2024_12_31 == <<"2", "0", "2", "4", "-", "1", "2", "-", "3", "1">>
D_2025_01_01 == <<"2", "0", "2", "5", "-", "0", "1", "-", "0", "1">>
D_2025_02_30 == <<"2", "0", "2", "5", "-", "0", "2", "-", "3", "0">>
D_2025_03_15 == <<"2", "0", "2", "5", "-", "0", "3", "-", "1", "5">>
D_2025_06_30 == <<"2", "0", "2", "5", "-", "0", "6", "-", "3", "0">>
D_2025_07_01 == <<"2", "0", "2", "5", "-", "0", "7", "-", "0", "1">>
D_2025_13_01 == <<"2", "0", "2", "5", "-", "1", "3", "-", "0", "1">>

PythonDev  == <<"P", "y", "t", "h", "o", "n", SP, "d", "e", "v">>
AwsAndSql  == <<"A", "W", "S", ",", SP, "a", "w", "s", SP, "a", "n", "d", SP,
                "S", "Q", "L">>
Gestor     == <<"G", "e", "s", "t", "o", "r">>
Javascript == <<"J", "a", "v", "a", "S", "c", "r", "i", "p", "t">>
WeUse ==
    <<"W", "e", SP, "u", "s", "e", SP, "P", "y", "t", "h", "o", "n", SP, "a", "n", "d",
      SP, "A", "W", "S", SP, "d", "a", "i", "l", "y", ",", SP, "P", "y", "t", "h", "o",
      "n", SP, "i", "s", SP, "c", "o", "r", "e">>

SkillsJobs ==
    { \* dated on the first day of the window
      JDict(<<Member("title", JText(PythonDev)),
              Member("publishedAt", JText(D_2025_01_01))>>),
      \* dated on the last day of the window
      JDict(<<Member("id", JInt(7)), Member("description", JText(WeUse)),
              Member("publishedAt", JText(D_2025_06_30 \o <<SP, "1", "0", ":", "0", "0">>))>>),
      \* dated the day before the window
      JDict(<<Member("title", JText(AwsAndSql)),
              Member("publishedAt", JText(D_2024_12_31))>>),
      \* inside the window
      JDict(<<Member("title", JText(AwsAndSql)),
              Member("publishedAt", JText(D_2025_03_15))>>),
      \* inside the window, no skill
      JDict(<<Member("title", JText(Gestor)), Member("description", JNull),
              Member("publishedAt", JText(D_2025_03_15))>>),
      \* no date
      JDict(<<Member("title", JText(Javascript))>>),
      \* the first date is none, the second one lies inside the window
      JDict(<<Member("title", JText(Javascript)),
              Member("updatedAt", JText(D_2025_13_01)),
              Member("publishedAt", JText(D_2025_03_15))>>),
      \* the first date, in the title, is outside the window, the second
      \* one inside
      JDict(<<Member("title", JText(PythonDev \o <<SP>> \o D_2025_07_01)),
              Member("publishedAt", JText(D_2025_03_15))>>),
      \* a date that only the escape sequence of json.dumps makes
      JDict(<<Member("title", JText(<<TMSIGN, "-", "0", "1", "-", "0", "1", SP,
                                      "p", "h", "p">>))>>) }

SkillsLists == UNION {[1..n -> SkillsJobs] : n \in 0..MaxJobs}

SkillsPayloads ==
    {JList(l) : l \in SkillsLists}
        \cup {JDict(<<Member("total", JInt(Len(l))), Member("results", JList(l))>>) :
                l \in {l \in SkillsLists : Len(l) <= 1}}

SkillsWindows ==
    { <<D_2025_01_01, D_2025_06_30>>,
      <<D_2025_06_30, D_2025_01_01>>,    \* start later than end
      <<D_2025_02_30, D_2025_06_30>> }   \* no date

InitSkills ==
    /\ NormIdle
    /\ ExtractIdle
    /\ TeamlyzerIdle
    /\ pc = "skills"
    /\ \E w \in SkillsWindows : start_date = w[1] /\ end_date = w[2]
    /\ csv_path \in {None, <<"o", "u", "t", ".", "c", "s", "v">>}
    /\ group = None
    /\ job_index = 0
    /\ counts = <<>>
    /\ matched_jobs = <<>>
    /\ stdout = None
    /\ csv_file = None
    /\ exit_code = None
    /\ role = None
    /\ pages = PagesDefault
    /\ top = TopDefault
    /\ picked = None

NextSkills ==
    \/ SkillsStart
    \/ SkillsListJobs(SkillsPayloads)
    \/ SkillsJob
    \/ SkillsOutput

SpecSkills == InitSkills /\ [][NextSkills]_vars

(***************************************************************************)
(* Properties of the skills command under SpecSkills                       *)
(***************************************************************************)
\* the window of the command
SDate == fromisoformat(start_date)
EDate == fromisoformat(end_date)

\* the job has a date and the date lies in the window, the end days included
Contributes(job) ==
    LET jd == JobDate(job)
    IN  /\ jd # None /\ jd # ValueError
        /\ DateLE(SDate, jd) /\ DateLE(jd, EDate)

\* number of places of the text where the skill stands as a word
Occurrences(skill, text) ==
    Cardinality({i \in 0..Len(text) : SkillAt(skill, text, i)})

\* the loop of the skills command has handled job_index jobs
SkillsRunning == pc = "jobs_loop" \/ (pc = "exit" /\ exit_code = 0 /\ stdout # None)

\* C11: a job adds to the counts only if a date can be extracted from it and
\* start <= date <= end, both days included: a job dated on the first or the
\* last day of the window adds its matches, a job dated outside the window
\* or without a date adds nothing, and with start later than end no job adds
\* anything.
C11_WindowInclusive ==
    [][(pc = "jobs_loop" /\ job_index' = job_index + 1) =>
          LET job == jobs.items[job_index + 1]
          IN  /\ IF Contributes(job)
                 THEN \A i \in 1..Len(skills_list) :
                         counts'[i].n = counts[i].n
                                          + Occurrences(skills_list[i], Content(job))
                 ELSE counts' = counts
              /\ ~DateLE(SDate, EDate) => counts' = counts]_vars

\* C11 witness: a job dated on the first day of the window has added its
\* match of python, the job dated the day before the window that follows it
\* has added nothing
C11_Witness ==
    /\ pc = "jobs_loop" /\ job_index = 2
    /\ start_date = D_2025_01_01 /\ end_date = D_2025_06_30
    /\ JobDate(jobs.items[1]) = <<2025, 1, 1>>
    /\ JobDate(jobs.items[2]) = <<2024, 12, 31>>
    /\ Occurrences(skills_list[7], Content(jobs.items[2])) = 2
    /\ counts[1].n = 1
    /\ counts[7].n = 0

\* the job matches a skill of the vocabulary in title + " " + description
HasSkill(job) ==
    \E i \in 1..Len(skills_list) : Occurrences(skills_list[i], Content(job)) > 0

\* C12: the matched jobs are the jobs, in input order, that have a date in
\* the window and match at least one skill; a job of the window without a
\* match and a job without a date are left out.
C12_MatchedJobs ==
    SkillsRunning =>
        matched_jobs = SelectSeq(SubSeq(jobs.items, 1, job_index),
                                 LAMBDA j : Contributes(j) /\ HasSkill(j))

\* C12 witness: of three jobs, the first in the window without a match, the
\* second without a date and the third in the window with a match, the
\* third alone is matched
C12_Witness ==
    /\ pc = "exit" /\ exit_code = 0 /\ stdout # None
    /\ Len(jobs.items) = 3
    /\ Contributes(jobs.items[1]) /\ ~HasSkill(jobs.items[1])
    /\ JobDate(jobs.items[2]) = None /\ HasSkill(jobs.items[2])
    /\ Contributes(jobs.items[3]) /\ HasSkill(jobs.items[3])
    /\ matched_jobs = <<jobs.items[3]>>

\* the matches of a skill over the contributing jobs of a list
RECURSIVE TotalMatches(_, _)
TotalMatches(skill, items) ==
    IF items = <<>> THEN 0
    ELSE (IF Contributes(Head(items)) THEN Occurrences(skill, Content(Head(items)))
          ELSE 0)
         + TotalMatches(skill, Tail(items))

\* position of a skill in the vocabulary
VocabularyIndex(skill) == CHOOSE i \in 1..Len(skills_list) : skills_list[i] = skill

\* C13: the printed counts have only skills of the vocabulary as keys, a
\* skill exactly when its count is positive, the count being the sum of the
\* matches of the skill over the contributing jobs; the keys stand in
\* non-increasing order of count, equal counts in vocabulary order.
C13_PositiveSortedCounts ==
    (pc = "exit" /\ exit_code = 0 /\ stdout # None) =>
        LET o == stdout[1]
        IN  /\ \A k \in 1..Len(o) :
                  /\ \E i \in 1..Len(skills_list) : skills_list[i] = o[k].key
                  /\ o[k].n > 0
                  /\ o[k].n = TotalMatches(o[k].key, jobs.items)
            /\ \A i \in 1..Len(skills_list) :
                  TotalMatches(skills_list[i], jobs.items) > 0 =>
                      \E k \in 1..Len(o) : o[k].key = skills_list[i]
            /\ \A k, l \in 1..Len(o) :
                  k < l =>
                      /\ o[k].key # o[l].key
                      /\ o[k].n >= o[l].n
                      /\ o[k].n = o[l].n =>
                            VocabularyIndex(o[k].key) < VocabularyIndex(o[l].key)

\* C13 witness: python 1, sql 1 and aws 2 are printed as aws, python, sql
C13_Witness ==
    /\ pc = "exit" /\ exit_code = 0
    /\ stdout = << <<Counter(skills_list[7], 2), Counter(skills_list[1], 1),
                     Counter(skills_list[6], 1)>> >>

\* C13, the example of the specification: python 2 before aws 1
C13_Example ==
    /\ pc = "exit" /\ exit_code = 0
    /\ Len(jobs.items) = 1
    /\ Content(jobs.items[1]) = Lower(<<SP>> \o WeUse)
    /\ stdout = << <<Counter(skills_list[1], 2), Counter(skills_list[7], 1)>> >>

(***************************************************************************)
(* Order of strings                                                        *)
(***************************************************************************)
Ascii ==
    <<" ", "!", "\"", "#", "$", "%", "&", "'", "(", ")", "*", "+",
      ",", "-", ".", "/", "0", "1", "2", "3", "4", "5", "6", "7",
      "8", "9", ":", ";", "<", "=", ">", "?", "@", "A", "B", "C",
      "D", "E", "F", "G", "H", "I", "J", "K", "L", "M", "N", "O",
      "P", "Q", "R", "S", "T", "U", "V", "W", "X", "Y", "Z", "[",
      "\\", "]", "^", "_", "U+0060", "a", "b", "c", "d", "e", "f", "g",
      "h", "i", "j", "k", "l", "m", "n", "o", "p", "q", "r", "s",
      "t", "u", "v", "w", "x", "y", "z", "{", "|", "}", "~">>

\* ord(c); the grave accent is written by its code point
ord(c) ==
    CASE c = TAB    -> 9
      [] c = NL     -> 10
      [] c = NBSP   -> 160
      [] c = SDIAER -> 168
      [] c = ECAP   -> 201
      [] c = EACUTE -> 233
      [] c = ACUTE  -> 769
      [] c = DIAER  -> 776
      [] c = TMSIGN -> 8482
      [] OTHER      -> 31 + (CHOOSE i \in 1..Len(Ascii) : Ascii[i] = c)

\* a < b for strings
RECURSIVE StrLess(_, _)
StrLess(a, b) ==
    IF b = <<>> THEN FALSE
    ELSE IF a = <<>> THEN TRUE
    ELSE IF Head(a) = Head(b) THEN StrLess(Tail(a), Tail(b))
    ELSE ord(Head(a)) < ord(Head(b))

(***************************************************************************)
(* The statistics command                                                  *)
(***************************************************************************)
Unknown == <<"U", "n", "k", "n", "o", "w", "n">>

\* A test that takes every string for a usable one
IsNonBlank_AnyString(v) == v.kind = "str"

\* isinstance(v, str) and v.strip()
IsNonBlank(v) == v.kind = "str" /\ Strip(v.v) # <<>>

\* a or b
Or(a, b) == IF Truthy(a) THEN a ELSE b

\* for k in (...): v = job.get(k); if isinstance(v, str) and v.strip(): return
RECURSIVE FirstNonBlank(_, _)
FirstNonBlank(job, keys) ==
    IF keys = <<>> THEN None
    ELSE IF IsNonBlank(dict_get(job, Head(keys))) THEN Strip(dict_get(job, Head(keys)).v)
         ELSE FirstNonBlank(job, Tail(keys))

\* A zone that is read from the flat fields before the locations list
_extract_zone_from_job_FlatFirst(job) ==
    LET locs  == dict_get(job, "locations")
        first == locs.items[1]
        name  == Or(Or(dict_get(first, "name"), dict_get(first, "title")),
                    dict_get(first, "nome"))
        keys  == <<"location", "localizacao", "localidade", "city", "region", "zona">>
    IN  IF FirstNonBlank(job, keys) # None THEN FirstNonBlank(job, keys)
        ELSE IF locs.kind = "list" /\ locs.items # <<>>
                /\ first.kind = "dict" /\ IsNonBlank(name)
             THEN Strip(name.v)
             ELSE IF locs.kind = "list" /\ locs.items # <<>> /\ IsNonBlank(first)
                  THEN Strip(first.v)
                  ELSE Unknown

_extract_zone_from_job(job) ==
    LET locs  == dict_get(job, "locations")
        first == locs.items[1]
        name  == Or(Or(dict_get(first, "name"), dict_get(first, "title")),
                    dict_get(first, "nome"))
        keys  == <<"location", "localizacao", "localidade", "city", "region", "zona">>
    IN  IF locs.kind = "list" /\ locs.items # <<>>
           /\ first.kind = "dict" /\ IsNonBlank(name)
        THEN Strip(name.v)
        ELSE IF locs.kind = "list" /\ locs.items # <<>> /\ IsNonBlank(first)
             THEN Strip(first.v)
             ELSE IF FirstNonBlank(job, keys) # None THEN FirstNonBlank(job, keys)
                  ELSE Unknown

_extract_type_from_job(job) ==
    LET keys  == <<"type", "tipo", "employment_type", "contract_type", "contract">>
        types == dict_get(job, "types")
        t0    == types.items[1]
        name  == Or(dict_get(t0, "name"), dict_get(t0, "title"))
    IN  IF FirstNonBlank(job, keys) # None THEN FirstNonBlank(job, keys)
        ELSE IF types.kind = "list" /\ types.items # <<>>
                /\ t0.kind = "dict" /\ IsNonBlank(name)
             THEN Strip(name.v)
             ELSE IF types.kind = "list" /\ types.items # <<>> /\ IsNonBlank(t0)
                  THEN Strip(t0.v)
                  ELSE Unknown

\* for k in ("job", "data", "result"): if isinstance(detail.get(k), dict): ...
RECURSIVE Unwrap(_, _)
Unwrap(detail, keys) ==
    IF keys = <<>> THEN detail
    ELSE IF dict_get(detail, Head(keys)).kind = "dict" THEN dict_get(detail, Head(keys))
         ELSE Unwrap(detail, Tail(keys))

\* job_obj of a decoded detail
job_obj(detail) ==
    IF detail.kind = "dict" THEN Unwrap(detail, <<"job", "data", "result">>)
    ELSE detail

\* A key that forgets the case of the letters
CountKey_Lower(zone, job_type) == <<Lower(zone), Lower(job_type)>>

\* key = (zone, job_type)
CountKey(zone, job_type) == <<zone, job_type>>

\* counts[key] = counts.get(key, 0) + 1; the dict keeps the order of insertion
Increment(cnt, key) ==
    IF \E i \in 1..Len(cnt) : cnt[i].key = key
    THEN [i \in 1..Len(cnt) |->
            IF cnt[i].key = key THEN Counter(key, cnt[i].n + 1) ELSE cnt[i]]
    ELSE Append(cnt, Counter(key, 1))

\* the body of the try block, given the answer of get.json: the counts after
\* it; job.get of a value that is no object raises
DetailBody(cnt, resp) ==
    LET job == job_obj(resp)
    IN  IF job.kind # "dict" THEN Raise
        ELSE [status |-> "pass",
              value  |-> Increment(cnt, CountKey(_extract_zone_from_job(job),
                                                 _extract_type_from_job(job)))]

\* A detail block whose exception handler is missing
DetailTry_NoExcept(cnt, resp) ==
    IF resp = RequestFailed THEN Raise ELSE DetailBody(cnt, resp)

\* try: detail = get_job(str(job_id)).json(); ... except Exception: continue
DetailTry(cnt, resp) ==
    IF resp = RequestFailed \/ DetailBody(cnt, resp).status = "raise"
    THEN [status |-> "pass", value |-> cnt]
    ELSE DetailBody(cnt, resp)

\* An order that compares the zones and the types as they are written
SortKey_CaseSensitive(e) == <<e.key[1], 0 - e.n, e.key[2]>>

\* key=lambda kv: (kv[0][0].lower(), -kv[1], kv[0][1].lower())
SortKey(e) == <<Lower(e.key[1]), 0 - e.n, Lower(e.key[2])>>

\* a < b for tuples (string, number, string)
KeyLess(a, b) ==
    \/ StrLess(a[1], b[1])
    \/ a[1] = b[1] /\ a[2] < b[2]
    \/ a[1] = b[1] /\ a[2] = b[2] /\ StrLess(a[3], b[3])

\* sorted(counts.items(), key=...): one insertion; the sort is stable
InsertByKey(sorted, e) ==
    LET k == Cardinality({i \in 1..Len(sorted) : ~KeyLess(SortKey(e), SortKey(sorted[i]))})
    IN  SubSeq(sorted, 1, k) \o <<e>> \o SubSeq(sorted, k + 1, Len(sorted))
RECURSIVE SortByKey(_)
SortByKey(items) ==
    IF items = <<>> THEN <<>>
    ELSE InsertByKey(SortByKey(SubSeq(items, 1, Len(items) - 1)), items[Len(items)])

StatisticsHeader == <<"Zona", "Tipo de Trabalho", "N. de vagas">>

\* writer.writerow([zone, job_type, n]) for the sorted items
StatisticsRows(cnt) ==
    LET items == SortByKey(cnt)
    IN  [i \in 1..Len(items) |->
            <<items[i].key[1], items[i].key[2], IntDigits(items[i].n)>>]

zone_word == <<"z", "o", "n", "e">>

\* group = (group or "").strip().lower(); if group != "zone": exit 1
StatisticsStart ==
    /\ pc = "statistics"
    /\ IF Lower(Strip(OrEmpty(group))) # zone_word
       THEN pc' = "exit" /\ exit_code' = 1
       ELSE pc' = "list_ids" /\ UNCHANGED exit_code
    /\ UNCHANGED <<start_date, end_date, group, job_index, counts, matched_jobs,
                   stdout, csv_path, csv_file, role, pages, top, picked, normVars,
                   extractVars, teamlyzerVars>>

\* 1) resp = list_jobs(limit); data = resp.json(); jobs = ...; counts = {}
StatisticsListJobs(payloads) ==
    /\ pc = "list_ids"
    /\ \E resp \in payloads \cup {RequestFailed} :
          IF resp = RequestFailed
          THEN /\ pc' = "exit" /\ exit_code' = 1
               /\ UNCHANGED <<data, jobs, counts, job_index>>
          ELSE /\ data' = resp
               /\ jobs' = _extract_jobs_from_response(resp)
               /\ counts' = <<>>
               /\ job_index' = 0
               /\ pc' = "details_loop"
               /\ UNCHANGED exit_code
    /\ UNCHANGED <<start_date, end_date, group, matched_jobs, stdout, csv_path,
                   csv_file, role, pages, top, picked, normVars, teamlyzerVars>>

\* 2) one iteration of for j in jobs
StatisticsJob(details) ==
    /\ pc = "details_loop"
    /\ job_index < Len(jobs.items)
    /\ LET j      == jobs.items[job_index + 1]
           job_id == Or(dict_get(j, "id"), dict_get(j, "job_id"))
       IN  IF ~Truthy(job_id)
           THEN /\ job_index' = job_index + 1
                /\ UNCHANGED <<pc, counts, fetched>>
           ELSE \E resp \in details \cup {RequestFailed} :
                   LET o == DetailTry(counts, resp)
                   IN  /\ fetched' = Append(fetched, Request("get", str_of(job_id), resp))
                       /\ IF o.status = "raise"
                          THEN pc' = "raised" /\ UNCHANGED <<counts, job_index>>
                          ELSE /\ counts' = o.value
                               /\ job_index' = job_index + 1
                               /\ UNCHANGED pc
    /\ UNCHANGED <<start_date, end_date, group, matched_jobs, stdout, csv_path,
                   csv_file, exit_code, role, pages, top, picked, normVars, extractVars,
                   caller, job_json, company_name, max_pages_fallback, page, slug,
                   top_benefits, benefits, out>>

\* 3) write the file; exit 1 when it cannot be written
StatisticsExport ==
    /\ pc = "details_loop"
    /\ job_index = Len(jobs.items)
    /\ \E written \in BOOLEAN :
          IF written
          THEN /\ csv_file' = <<StatisticsHeader>> \o StatisticsRows(counts)
               /\ exit_code' = 0
          ELSE /\ exit_code' = 1
               /\ UNCHANGED csv_file
    /\ pc' = "exit"
    /\ UNCHANGED <<start_date, end_date, group, job_index, counts, matched_jobs,
                   stdout, csv_path, role, pages, top, picked, normVars, extractVars,
                   teamlyzerVars>>

(***************************************************************************)
(* Specification SpecStatistics: the statistics command on a list of jobs  *)
(***************************************************************************)
MaxEntries == 3

Porto  == <<"P", "o", "r", "t", "o">>
porto  == <<"p", "o", "r", "t", "o">>
lisboa == <<"l", "i", "s", "b", "o", "a">>
Remote == <<"R", "e", "m", "o", "t", "e">>
remote == <<"r", "e", "m", "o", "t", "e">>
Hybrid == <<"H", "y", "b", "r", "i", "d">>

StatisticsEntries ==
    { JDict(<<Member("id", JInt(1))>>),
      JDict(<<Member("id", JInt(0)), Member("job_id", JText(<<"2">>))>>),
      JDict(<<Member("title", JText(Gestor))>>) }   \* no identifier

StatisticsPayloads ==
    {JList(l) : l \in UNION {[1..n -> StatisticsEntries] : n \in 0..MaxEntries}}

StatisticsDetails ==
    { JDict(<<Member("locations", JList(<<JDict(<<Member("name", JText(Porto))>>)>>)),
              Member("types", JList(<<JDict(<<Member("name", JText(Remote))>>)>>))>>),
      JDict(<<Member("job", JDict(<<Member("location", JText(porto)),
                                     Member("type", JText(remote))>>))>>),
      JDict(<<Member("locations", JList(<<JText(<<SP>> \o Porto)>>)),
              Member("tipo", JText(Hybrid \o <<SP>>))>>),
      JDict(<<Member("city", JText(lisboa)), Member("type", JText(Remote))>>),
      JDict(<<Member("id", JInt(1))>>),          \* no zone, no type
      JList(<<>>) }                               \* no object

Groups == {<<SP, "Z", "o", "n", "e">>, <<"t", "y", "p", "e">>}

InitStatistics ==
    /\ NormIdle
    /\ ExtractIdle
    /\ TeamlyzerIdle
    /\ pc = "statistics"
    /\ group \in Groups
    /\ start_date = None
    /\ end_date = None
    /\ csv_path = None
    /\ job_index = 0
    /\ counts = <<>>
    /\ matched_jobs = <<>>
    /\ stdout = None
    /\ csv_file = None
    /\ exit_code = None
    /\ role = None
    /\ pages = PagesDefault
    /\ top = TopDefault
    /\ picked = None

NextStatistics ==
    \/ StatisticsStart
    \/ StatisticsListJobs(StatisticsPayloads)
    \/ StatisticsJob(StatisticsDetails)
    \/ StatisticsExport

SpecStatistics == InitStatistics /\ [][NextStatistics]_vars

(***************************************************************************)
(* Properties of the statistics command under SpecStatistics               *)
(***************************************************************************)
\* the loop of the statistics command has handled job_index entries
StatisticsRunning ==
    group # None /\ (pc = "details_loop" \/ (pc = "exit" /\ jobs # JNull))

\* the table has been written
StatisticsWritten == group # None /\ pc = "exit" /\ exit_code = 0

\* the detail of request r was fetched, decoded and is a job object
Successful(r) == r.resp # RequestFailed /\ job_obj(r.resp).kind = "dict"

\* zone and type of the job of request r, as extracted
ZoneType(r) ==
    <<_extract_zone_from_job(job_obj(r.resp)), _extract_type_from_job(job_obj(r.resp))>>

\* C14: the table is keyed by the zone and the type as extracted, compared
\* with the case of the letters: each pair (zone, type) of a counted job has
\* its own entry and the count of an entry is the number of jobs with exactly
\* that pair; Porto/Remote twice and porto/remote once make two entries with
\* the counts 2 and 1.
C14_CaseSensitiveKeys ==
    StatisticsRunning =>
        /\ \A i, k \in 1..Len(counts) : i # k => counts[i].key # counts[k].key
        /\ \A i \in 1..Len(counts) :
              counts[i].n = Cardinality({k \in 1..Len(fetched) :
                                Successful(fetched[k])
                                /\ ZoneType(fetched[k]) = counts[i].key})
        /\ \A k \in 1..Len(fetched) :
              Successful(fetched[k]) =>
                  \E i \in 1..Len(counts) : counts[i].key = ZoneType(fetched[k])
        /\ StatisticsWritten =>
              {csv_file[i] : i \in 2..Len(csv_file)}
                  = {<<counts[i].key[1], counts[i].key[2], IntDigits(counts[i].n)>> :
                        i \in 1..Len(counts)}

\* C14 witness: two jobs Porto/Remote and one job porto/remote were counted
\* and written as two rows
C14_Witness ==
    /\ StatisticsWritten
    /\ Len(counts) = 2
    /\ \E i \in 1..2 : counts[i] = Counter(<<Porto, Remote>>, 2)
    /\ \E i \in 1..2 : counts[i] = Counter(<<porto, remote>>, 1)
    /\ Len(csv_file) = 3

\* the entry of the list carries an identifier
HasIdentifier(j) == Truthy(dict_get(j, "id")) \/ Truthy(dict_get(j, "job_id"))

\* the counts of a sequence of successful requests
RECURSIVE CountsOf(_)
CountsOf(log) ==
    IF log = <<>> THEN <<>>
    ELSE LET rest == CountsOf(SubSeq(log, 1, Len(log) - 1))
             key  == ZoneType(log[Len(log)])
         IN  IF \E i \in 1..Len(rest) : rest[i].key = key
             THEN [i \in 1..Len(rest) |->
                     IF rest[i].key = key THEN Counter(key, rest[i].n + 1) ELSE rest[i]]
             ELSE Append(rest, Counter(key, 1))

RECURSIVE SumOfCounts(_)
SumOfCounts(cnt) == IF cnt = <<>> THEN 0 ELSE Head(cnt).n + SumOfCounts(Tail(cnt))

RowTriple(row) == <<Lower(row[1]), 0 - Number(row[3]), Lower(row[2])>>

\* a <= b for such triples
TripleLE(a, b) ==
    \/ a = b
    \/ StrLess(a[1], b[1])
    \/ a[1] = b[1] /\ a[2] < b[2]
    \/ a[1] = b[1] /\ a[2] = b[2] /\ StrLess(a[3], b[3])

\* C16: the rows of the table stand in the order of zone ascending without
\* regard to case, then count descending, then type ascending without regard
\* to case: the triple of each row is less than or equal to the triple of
\* the next one.
C16_TableOrder ==
    StatisticsWritten =>
        /\ csv_file[1] = StatisticsHeader
        /\ Len(csv_file) = 1 + Len(counts)
        /\ \A i \in 2..(Len(csv_file) - 1) :
              TripleLE(RowTriple(csv_file[i]), RowTriple(csv_file[i + 1]))

\* C16 witness: lisboa stands before Porto, and of the two rows of Porto the
\* type Hybrid before the type Remote, whatever the order of the jobs
C16_Witness ==
    /\ StatisticsWritten
    /\ Len(fetched) = 3 /\ Successful(fetched[1])
    /\ ZoneType(fetched[1]) = <<Porto, Remote>>
    /\ csv_file = << StatisticsHeader,
                     <<lisboa, Remote, <<"1">>>>,
                     <<Porto, Hybrid, <<"1">>>>,
                     <<Porto, Remote, <<"1">>>> >>

\* C16, second case: the row with the higher count stands first among the
\* rows of one zone
C16_CountFirst ==
    /\ StatisticsWritten
    /\ Len(fetched) = 3 /\ Successful(fetched[1])
    /\ ZoneType(fetched[1]) = <<porto, remote>>
    /\ csv_file = << StatisticsHeader,
                     <<Porto, Remote, <<"2">>>>,
                     <<porto, remote, <<"1">>>> >>

(***************************************************************************)
(* Specification SpecExport: _export_to_csv on a list of jobs              *)
(***************************************************************************)
MaxRows == 3

ExportJobs ==
    { JDict(<<>>),
      JDict(<<Member("id", JInt(7)), Member("slug", JText(Gestor))>>),
      JDict(<<Member("title", JText(PythonDev)),
              Member("company", JDict(<<Member("id", JInt(3)),
                                        Member("name", JText(Blip))>>)),
              Member("date", JText(D_2025_03_15)),
              Member("location", JList(<<JText(Porto), JNull>>))>>),
      JDict(<<Member("title", JText(<<>>)), Member("titulo", JText(Gestor)),
              Member("salary", JInt(0)), Member("salario", JInt(1000)),
              Member("city", JText(lisboa))>>),
      JDict(<<Member("localizacao", JText(Porto)), Member("title", JNull),
              Member("job_title", JText(Javascript)),
              Member("descricao", JText(WeUse))>>) }

InitExport ==
    /\ NormIdle
    /\ TeamlyzerIdle
    /\ pc = "export"
    /\ data = JNull
    /\ jobs \in {JList(l) : l \in UNION {[1..n -> ExportJobs] : n \in 0..MaxRows}}
    /\ csv_path = <<"o", "u", "t", ".", "c", "s", "v">>
    /\ csv_file = None
    /\ start_date = None
    /\ end_date = None
    /\ group = None
    /\ job_index = 0
    /\ counts = <<>>
    /\ matched_jobs = <<>>
    /\ stdout = None
    /\ exit_code = None
    /\ role = None
    /\ pages = PagesDefault
    /\ top = TopDefault
    /\ picked = None

\* _export_to_csv(jobs, path)
ExportToCsv ==
    /\ pc = "export"
    /\ csv_file' = _export_to_csv(jobs.items)
    /\ pc' = "exported"
    /\ UNCHANGED <<start_date, end_date, group, job_index, counts, matched_jobs,
                   stdout, csv_path, exit_code, role, pages, top, picked, normVars,
                   extractVars, teamlyzerVars>>

NextExport == ExportToCsv

SpecExport == InitExport /\ [][NextExport]_vars

\* C17: the file starts with the header titulo, empresa, descricao,
\* data_de_publicacao, salario, localizacao, for the empty list as for any
\* other; the header is followed by one record of six fields for each job,
\* in the order of the list, whatever keys the jobs have.
C17_FixedHeader ==
    pc = "exported" =>
        /\ Len(csv_file) = 1 + Len(jobs.items)
        /\ csv_file[1] = <<"titulo", "empresa", "descricao", "data_de_publicacao",
                           "salario", "localizacao">>
        /\ \A i \in 1..Len(jobs.items) :
              /\ Len(csv_file[i + 1]) = 6
              /\ \A k \in 1..6 :
                    csv_file[i + 1][k] = _normalize_job_for_csv(jobs.items[i])[k].val

\* C17 witness: three jobs of different keys, the first one without any key,
\* were written under the header
C17_Witness ==
    /\ pc = "exported"
    /\ Len(jobs.items) = 3
    /\ jobs.items[1] = JDict(<<>>)
    /\ jobs.items[2] # jobs.items[3] /\ jobs.items[2] # jobs.items[1]
    /\ Len(csv_file) = 4
    /\ csv_file[2] = <<<<>>, <<>>, <<>>, <<>>, <<>>, <<>>>>
    /\ csv_file[3] # csv_file[4]

\* C17, the empty list: the file is the header alone
C17_EmptyList ==
    /\ pc = "exported"
    /\ jobs.items = <<>>
    /\ Len(csv_file) = 1

(***************************************************************************)
(* The command list skills (tgambientes.py).  A page of the job search is  *)
(* given by the values of the tags parameter of its tag links, in page     *)
(* order.                                                                  *)
(***************************************************************************)
\* unquote_plus(raw), for the escape %2C
RECURSIVE unquote_plus(_)
unquote_plus(raw) ==
    IF raw = <<>> THEN <<>>
    ELSE IF Head(raw) = "+" THEN <<SP>> \o unquote_plus(Tail(raw))
    ELSE IF Len(raw) >= 3 /\ raw[1] = "%" /\ raw[2] = "2" /\ raw[3] \in {"C", "c"}
         THEN <<",">> \o unquote_plus(SubSeq(raw, 4, Len(raw)))
         ELSE <<Head(raw)>> \o unquote_plus(Tail(raw))

\* re.split(r"[,\|]", tag)
RECURSIVE SplitTags(_)
SplitTags(tag) ==
    IF \E i \in 1..Len(tag) : tag[i] \in {",", "|"}
    THEN LET first == CHOOSE i \in 1..Len(tag) :
                          tag[i] \in {",", "|"}
                          /\ \A j \in 1..(i - 1) : tag[j] \notin {",", "|"}
         IN  <<SubSeq(tag, 1, first - 1)>> \o SplitTags(SubSeq(tag, first + 1, Len(tag)))
    ELSE <<tag>>

\* the tags of one tag link
TagsOfLink(raw) ==
    LET parts == SplitTags(Lower(Strip(unquote_plus(raw))))
    IN  SelectSeq([i \in 1..Len(parts) |-> Lower(Strip(parts[i]))],
                  LAMBDA t : t # <<>>)

RECURSIVE _extract_skill_tags_from_teamlyzer_jobs_html(_)
_extract_skill_tags_from_teamlyzer_jobs_html(links) ==
    IF links = <<>> THEN <<>>
    ELSE TagsOfLink(Head(links))
         \o _extract_skill_tags_from_teamlyzer_jobs_html(Tail(links))

\* for tag in tags: counts[tag] = counts.get(tag, 0) + 1
RECURSIVE CountTags(_, _)
CountTags(cnt, tags) ==
    IF tags = <<>> THEN cnt
    ELSE CountTags(Increment(cnt, Head(tags)), Tail(tags))

\* the body of the loop for one page: the counts after it, "break" when
\* page 1 has no tag, "raise" when the request failed
ListSkillsPageBody(cnt, resp, n) ==
    IF ~resp.ok THEN [status |-> "raise", value |-> cnt]
    ELSE LET tags == _extract_skill_tags_from_teamlyzer_jobs_html(resp.links)
         IN  IF tags = <<>> /\ n = 1 THEN [status |-> "break", value |-> cnt]
             ELSE [status |-> "pass", value |-> CountTags(cnt, tags)]

\* sorted(counts.items(), key=lambda kv: kv[1], reverse=True)[:top]
TopSkills(cnt, n) == SliceTo(SortDesc(cnt), n)

\* role = (role or "").strip(); if not role: exit 1; counts = {}
ListSkillsStart ==
    /\ pc = "list_skills"
    /\ IF Strip(OrEmpty(role)) = <<>>
       THEN pc' = "exit" /\ exit_code' = 1 /\ UNCHANGED <<counts, page>>
       ELSE pc' = "tags_page" /\ counts' = <<>> /\ page' = 1 /\ UNCHANGED exit_code
    /\ UNCHANGED <<start_date, end_date, group, job_index, matched_jobs, stdout,
                   csv_path, csv_file, role, pages, top, picked, normVars, extractVars,
                   caller, job_json, company_name, max_pages_fallback, slug,
                   top_benefits, benefits, out, fetched>>

\* one iteration of for page in range(1, pages + 1), inside the try block of
\* the command: an exception ends the command with exit code 1
ListSkillsPage(served) ==
    /\ pc = "tags_page"
    /\ page <= pages
    /\ \E resp \in served \cup {Failure} :
          LET o == ListSkillsPageBody(counts, resp, page)
          IN  /\ fetched' = Append(fetched, Request("jobs", page, resp))
              /\ CASE o.status = "raise" ->
                        /\ pc' = "exit" /\ exit_code' = 1
                        /\ UNCHANGED <<counts, page>>
                   [] o.status = "break" ->
                        /\ pc' = "tags_done"
                        /\ UNCHANGED <<counts, page, exit_code>>
                   [] OTHER ->
                        /\ counts' = o.value
                        /\ page' = page + 1
                        /\ UNCHANGED <<pc, exit_code>>
    /\ UNCHANGED <<start_date, end_date, group, job_index, matched_jobs, stdout,
                   csv_path, csv_file, role, pages, top, picked, normVars, extractVars,
                   caller, job_json, company_name, max_pages_fallback, slug,
                   top_benefits, benefits, out>>

\* items = sorted(...)[:top]; out = [...]; typer.echo(json.dumps(out, ...))
ListSkillsOutput ==
    /\ pc = "tags_done" \/ (pc = "tags_page" /\ page > pages)
    /\ stdout' = TopSkills(counts, top)
    /\ exit_code' = 0
    /\ pc' = "exit"
    /\ UNCHANGED <<start_date, end_date, group, job_index, counts, matched_jobs,
                   csv_path, csv_file, role, pages, top, picked, normVars, extractVars,
                   teamlyzerVars>>

(***************************************************************************)
(* Specification SpecListSkills: the command list skills                   *)
(***************************************************************************)
MaxScan == 3

TagPages ==
    { Page(<<<<"P", "y", "t", "h", "o", "n">>, <<"a", "w", "s">>>>, <<>>),
      Page(<<<<"p", "y", "t", "h", "o", "n">>,
             <<"a", "w", "s", "%", "2", "C", "d", "o", "c", "k", "e", "r", "+">>>>, <<>>),
      Page(<<<<"s", "q", "l", "|", "|">>>>, <<>>),
      EmptyPage }

Roles == {<<"d", "a", "t", "a">>, <<SP>>}

InitListSkills ==
    /\ NormIdle
    /\ ExtractIdle
    /\ TeamlyzerIdle
    /\ pc = "list_skills"
    /\ role \in Roles
    /\ pages \in 0..MaxScan
    /\ top \in {1, TopDefault}
    /\ picked = None
    /\ start_date = None
    /\ end_date = None
    /\ group = None
    /\ job_index = 0
    /\ counts = <<>>
    /\ matched_jobs = <<>>
    /\ stdout = None
    /\ csv_path = None
    /\ csv_file = None
    /\ exit_code = None

NextListSkills ==
    \/ ListSkillsStart
    \/ ListSkillsPage(TagPages)
    \/ ListSkillsOutput

SpecListSkills == InitListSkills /\ [][NextListSkills]_vars

\* the command list skills was given a role and has ended
ListSkillsEnded == role # None /\ Strip(role) # <<>> /\ pc = "exit"

\* the tags of the pages that were fetched, in the order of the requests
RECURSIVE TagsFetched(_)
TagsFetched(log) ==
    IF log = <<>> THEN <<>>
    ELSE (IF Head(log).resp.ok
          THEN _extract_skill_tags_from_teamlyzer_jobs_html(Head(log).resp.links)
          ELSE <<>>)
         \o TagsFetched(Tail(log))

\* C18: in the page scan of list skills a page that cannot be fetched is
\* caught for that page and adds nothing: the pages after it are still
\* requested and the command prints the result of the pages that were
\* fetched, instead of failing as a whole.
C18_PageFailureSkipped ==
    ListSkillsEnded =>
        /\ exit_code = 0
        /\ stdout = TopSkills(CountTags(<<>>, TagsFetched(fetched)), top)
        /\ \A k \in 1..Len(fetched) :
              (~fetched[k].resp.ok /\ k < pages) => Len(fetched) > k

\* C18 as the code has it: the command prints the result when no request
\* failed, and ends with exit code 1 and without output at the first request
\* that fails
C18_FirstFailureEndsCommand ==
    ListSkillsEnded =>
        IF \E k \in 1..Len(fetched) : ~fetched[k].resp.ok
        THEN /\ exit_code = 1 /\ stdout = None
             /\ ~fetched[Len(fetched)].resp.ok
             /\ \A k \in 1..(Len(fetched) - 1) : fetched[k].resp.ok
        ELSE /\ exit_code = 0
             /\ stdout = TopSkills(CountTags(<<>>, TagsFetched(fetched)), top)

\* C18, the failing run: page 1 gave tags, page 2 of 3 failed, the command
\* ended with exit code 1 and printed nothing
C18_FailingRun ==
    /\ ListSkillsEnded
    /\ pages = 3 /\ Len(fetched) = 2
    /\ fetched[1].resp.ok /\ counts # <<>>
    /\ ~fetched[2].resp.ok
    /\ exit_code = 1 /\ stdout = None

(***************************************************************************)
(* Properties of the resolution on one page, under Spec                    *)
(***************************************************************************)
\* the normalized name stands in the normalized text of the page
NameInText(name, resp) == IsSubstr(_norm(name), _norm(_html_to_text(resp.body)))

\* C19: the ranking page gives a slug only if the normalized company name
\* stands in the normalized text of the page: the scan of the profile links
\* and the guessed slug are both tried behind that test.
C19_RankingBehindGate ==
    (FindReturned /\ _norm(company_name) # <<>>
     /\ Len(ResolverLog) = 1 /\ slug # None) =>
        NameInText(company_name, ResolverLog[1].resp)

\* C19, the failing run: the ranking page does not name the company, links
\* to the guessed slug, and the slug is returned
C19_GuessWithoutName ==
    /\ caller = "find" /\ pc = "found"
    /\ company_name = Blip
    /\ Len(fetched) = 1
    /\ fetched[1].url = "ranking"
    /\ fetched[1].resp = Page(<<acme, blip>>, <<"A", "c", "m", "e">>)
    /\ slug = blip

\* the smallest element of a non-empty set of numbers
Min(S) == CHOOSE x \in S : \A y \in S : x <= y

\* what a directory page gives for a name: the guessed slug when the page
\* links to it, else the first profile link that is a part of the hyphenated
\* name, else the first one that is a word of it; None when the page does
\* not name the company or was not fetched
TierResult(name, resp) ==
    LET pairs  == extract_pairs(resp.links)
        hyphen == HyphenName(name)
        guess  == GuessSlug(name)
        parts  == {i \in 1..Len(pairs) : IsSubstr(pairs[i], hyphen)}
        words  == {i \in 1..Len(pairs) : WordSearch(pairs[i], hyphen)}
    IN  IF ~resp.ok \/ ~NameInText(name, resp) THEN None
        ELSE IF guess # <<>> /\ \E i \in 1..Len(resp.links) : Lower(resp.links[i]) = guess
             THEN guess
             ELSE IF parts # {} THEN pairs[Min(parts)]
                  ELSE IF words # {} THEN pairs[Min(words)]
                       ELSE None

\* C20: on a directory page that names the company the guessed slug is
\* taken first, then the first profile link in page order whose slug is a
\* part of the hyphenated name, then the first one that is a word of it; a
\* page that does not name the company gives nothing, even with a link to
\* the guessed slug.  The scan ends at the first page that gives a slug.
C20_DirectoryTiers ==
    (FindCalled /\ _norm(company_name) # <<>>) =>
        \A k \in 2..Len(ResolverLog) :
            TierResult(company_name, ResolverLog[k].resp)
                = (IF k = Len(ResolverLog) /\ FindReturned THEN slug ELSE None)

\* C20 witness: the directory page names the company and links to a part of
\* the name before it links to the guessed slug; the guessed slug is returned
C20_Witness ==
    /\ caller = "find" /\ pc = "found"
    /\ company_name = Blip
    /\ Len(fetched) = 2
    /\ fetched[2].url = "companies"
    /\ fetched[2].resp = Page(<<bli, blip>>, <<"B", "l", "i", "p">>)
    /\ slug = blip

\* C20, second case: the page links to the guessed slug and does not name
\* the company; nothing is returned
C20_GateFails ==
    /\ caller = "find" /\ pc = "found"
    /\ company_name = Blip /\ max_pages_fallback = 1
    /\ Len(fetched) = 2
    /\ fetched[2].resp = Page(<<acme, blip>>, <<"A", "c", "m", "e">>)
    /\ slug = None

\* C20, third case: without a link to the guessed slug the first link that
\* is a part of the name is returned
C20_FirstPart ==
    /\ caller = "find" /\ pc = "found"
    /\ company_name = Blip
    /\ Len(fetched) = 2
    /\ fetched[2].resp.ok /\ fetched[2].resp.links = <<lip, bli, lip>>
    /\ slug = lip

(***************************************************************************)
(* The ranking page against a directory page                               *)
(***************************************************************************)
\* C21: the ranking page and a directory page apply the same gate and the
\* same order of attempts: the content served as the ranking page resolves
\* to the slug (or to nothing) that the same content resolves to when it is
\* served as a directory page.
C21_SameResolution ==
    (FindCalled /\ _norm(company_name) # <<>>
     /\ Len(ResolverLog) >= 1 /\ ResolverLog[1].resp.ok) =>
        RankingBody(company_name, ResolverLog[1].resp)
            = DirectoryBody(company_name, ResolverLog[1].resp)

\* C21, the failing run: the ranking page names the company and links to
\* a part of the name before the guessed slug; the ranking request returns
\* the part, where the same page as a directory page returns the guess
C21_OrderDiffers ==
    /\ caller = "find" /\ pc = "found"
    /\ company_name = Blip
    /\ Len(fetched) = 1
    /\ fetched[1].url = "ranking"
    /\ fetched[1].resp = Page(<<bli, blip>>, <<"B", "l", "i", "p">>)
    /\ slug = bli
    /\ DirectoryBody(company_name, fetched[1].resp) = Return(blip)

(***************************************************************************)
(* Specification FairSpec: the calls of Spec, each step of which ends:     *)
(* every request carries timeout=20, so it answers or raises               *)
(***************************************************************************)
FairSpec == Spec /\ WF_vars(Next)

\* the requests of the resolver are the ranking page, then the directory
\* pages 1, 2, ... within the budget, each made only when no earlier one
\* resolved the name
FetchesInOrder ==
    (FindCalled /\ _norm(company_name) # <<>>) =>
        /\ Len(ResolverLog) <= 1 + BudgetPages
        /\ \A i \in 1..Len(ResolverLog) :
              /\ (i = 1) => ResolverLog[i] = Request("ranking", 0, ResolverLog[i].resp)
              /\ (i > 1) => ResolverLog[i] = Request("companies", i - 1, ResolverLog[i].resp)
              /\ (i < Len(ResolverLog)) => ~Yields(company_name, ResolverLog[i])
              /\ (i = Len(ResolverLog) /\ Yields(company_name, ResolverLog[i]))
                    => (FindReturned /\ slug # None)

\* C22: the resolver fetches the ranking page, then directory pages 1, 2,
\* ..., budget, in that order; a directory page is fetched only after the
\* ranking page and the pages before it did not resolve; nothing is fetched
\* after the first success or after the return; a call makes at most
\* 1 + budget fetches (the ranking page alone when the budget is 0 or
\* negative) and always returns.
C22_FetchOrderAndTermination ==
    /\ []FetchesInOrder
    /\ [][FindReturned => ResolverLog' = ResolverLog]_vars
    /\ (pc = "find") ~> FindReturned

\* C22 witness: with budget 2 the ranking page and pages 1 and 2 were
\* fetched in that order, none resolved, and the call returned
C22_Witness ==
    /\ caller = "find" /\ pc = "found"
    /\ max_pages_fallback = 2
    /\ Len(fetched) = 3
    /\ fetched[1].url = "ranking"
    /\ fetched[2].url = "companies" /\ fetched[2].page = 1
    /\ fetched[3].url = "companies" /\ fetched[3].page = 2
    /\ slug = None

\* C22, budget below 1: the ranking page alone is fetched
C22_NoBudget ==
    /\ caller = "find" /\ pc = "found"
    /\ max_pages_fallback = 0 - 1
    /\ Len(fetched) = 1 /\ fetched[1].url = "ranking"
    /\ slug = None

\* C22, early end: page 1 of 3 resolved and page 2 was not fetched
C22_StopsAtSuccess ==
    /\ caller = "find" /\ pc = "found"
    /\ max_pages_fallback = 3
    /\ Len(fetched) = 2 /\ fetched[2].page = 1
    /\ slug = blip

(***************************************************************************)
(* The range of the rating, under SpecRating                               *)
(***************************************************************************)
\* C23: a rating that is not null is a number in the closed range 0 to 5,
\* whatever the text of the overview page.
C23_RatingInRange ==
    (pc = "scraped" /\ out.teamlyzer_rating # None) =>
        \E tenths \in 0..50 : out.teamlyzer_rating = Float(tenths)

\* C23, the failing run: the overview page reads "8/5" and the profile is
\* returned with the rating 8.0
C23_RatingAboveFive ==
    /\ pc = "scraped"
    /\ Len(fetched) >= 1 /\ fetched[1].url = "overview" /\ fetched[1].resp.ok
    /\ fetched[1].resp.body = <<"8", "/", "5">>
    /\ out.teamlyzer_rating = Float(80)

(***************************************************************************)
(* Specification SpecSkillWords: the skills command on jobs of the window  *)
(* whose texts hold the keywords as words and inside longer words          *)
(***************************************************************************)
AllKeywords ==
    <<"P", "y", "t", "h", "o", "n", ",", SP, "J", "a", "v", "a", ";", SP,
      "J", "a", "v", "a", "S", "c", "r", "i", "p", "t", SP, "(", "P", "H", "P", ")",
      SP, "S", "Q", "L", "/", "A", "W", "S", SP, "D", "o", "c", "k", "e", "r", ".",
      SP, "K", "u", "b", "e", "r", "n", "e", "t", "e", "s", SP, "R", "e", "a", "c",
      "t", "!", SP, "A", "n", "g", "u", "l", "a", "r">>
CSharpDev    == <<"C", "#", SP, "d", "e", "v">>
WeUseCSharp  == <<"w", "e", SP, "u", "s", "e", SP, "c", "#">>
SqlThrice    == <<"s", "q", "l", SP, "s", "q", "l", ",", "S", "Q", "L">>
LongerWords  == <<"r", "e", "a", "c", "t", "i", "v", "e", SP, "m", "y", "s", "q",
                  "l", SP, "J", "a", "v", "a", "S", "c", "r", "i", "p", "t">>

WordJobs ==
    { JDict(<<Member("title", JText(AllKeywords)),
              Member("publishedAt", JText(D_2025_03_15))>>),
      JDict(<<Member("title", JText(CSharpDev)),
              Member("publishedAt", JText(D_2025_03_15))>>),
      JDict(<<Member("title", JText(Gestor)),
              Member("description", JText(WeUseCSharp)),
              Member("publishedAt", JText(D_2025_03_15))>>),
      JDict(<<Member("title", JText(SqlThrice)),
              Member("description", JText(SqlThrice)),
              Member("publishedAt", JText(D_2025_03_15))>>),
      JDict(<<Member("description", JText(LongerWords)),
              Member("publishedAt", JText(D_2025_03_15))>>) }

WordPayloads == {JList(l) : l \in UNION {[1..n -> WordJobs] : n \in 0..MaxJobs}}

InitSkillWords ==
    /\ NormIdle
    /\ ExtractIdle
    /\ TeamlyzerIdle
    /\ pc = "skills"
    /\ start_date = D_2025_01_01 /\ end_date = D_2025_06_30
    /\ csv_path = None
    /\ group = None
    /\ job_index = 0
    /\ counts = <<>>
    /\ matched_jobs = <<>>
    /\ stdout = None
    /\ csv_file = None
    /\ exit_code = None
    /\ role = None
    /\ pages = PagesDefault
    /\ top = TopDefault
    /\ picked = None

NextSkillWords ==
    \/ SkillsStart
    \/ SkillsListJobs(WordPayloads)
    \/ SkillsJob
    \/ SkillsOutput

SpecSkillWords == InitSkillWords /\ [][NextSkillWords]_vars

\* position k of the text is an end of the text, a space or a punctuation
\* mark
Delimits(text, k) == k < 1 \/ k > Len(text) \/ ~IsWordChar(text[k])

\* number of places where the keyword stands as a word of its own
StandaloneWords(skill, text) ==
    Cardinality({i \in 0..(Len(text) - Len(skill)) :
                    /\ SubSeq(text, i + 1, i + Len(skill)) = skill
                    /\ Delimits(text, i)
                    /\ Delimits(text, i + Len(skill) + 1)})

\* a job of the window adds, for each keyword of Keys, the number of places
\* where the keyword stands as a word of its own
CountsStandalone(Keys) ==
    (pc = "jobs_loop" /\ job_index' = job_index + 1
     /\ Contributes(jobs.items[job_index + 1])) =>
        \A i \in 1..Len(skills_list) :
            skills_list[i] \in Keys =>
                counts'[i].n = counts[i].n
                    + StandaloneWords(skills_list[i],
                                      Content(jobs.items[job_index + 1]))

\* C24: for every keyword of the vocabulary, a job of the window adds to
\* the keyword's count the number of places of title + " " + description
\* where the keyword stands as a word of its own, between spaces,
\* punctuation marks or the ends of the text; a keyword inside a longer
\* word adds nothing.
C24_StandaloneCounted ==
    [][CountsStandalone({skills_list[i] : i \in 1..Len(skills_list)})]_vars

\* C24 without c#: the ten keywords made of letters are counted as the
\* sentence says
C24_LetterKeywordsCounted ==
    [][CountsStandalone({skills_list[i] : i \in 1..Len(skills_list)}
                            \ {skills_list[4]})]_vars

\* C24, the failing run: the job titled "C# dev" lies in the window and the
\* count of c# stays 0
C24_CSharpNotCounted ==
    /\ pc = "jobs_loop" /\ job_index = 1
    /\ Content(jobs.items[1]) = <<"c", "#", SP, "d", "e", "v", SP>>
    /\ Contributes(jobs.items[1])
    /\ StandaloneWords(skills_list[4], Content(jobs.items[1])) = 1
    /\ counts[4].n = 0

\* C24, java inside javascript: the job with every keyword has added 1 to
\* java and 1 to javascript
C24_JavaInsideJavascript ==
    /\ pc = "jobs_loop" /\ job_index = 1
    /\ Len(Content(jobs.items[1])) > 60
    /\ counts[2].n = 1 /\ counts[3].n = 1
    /\ \A i \in 1..Len(skills_list) : i # 4 => counts[i].n = 1

(***************************************************************************)
(* The date of a job, under SpecSkills                                     *)
(***************************************************************************)
\* the positions of the serialized job where a text of the shape
\* YYYY-MM-DD starts
DateShaped(job) ==
    LET t == Lower(json_dumps(job))
    IN  {i \in 1..Len(t) : DateAt(t, i)}

\* the first text of the shape YYYY-MM-DD of the serialized job
FirstDateShaped(job) ==
    LET t == Lower(json_dumps(job))
        i == Min(DateShaped(job))
    IN  SubSeq(t, i, i + 9)

\* the first text of that shape is a date of the calendar inside the window
DatedInWindow(job) ==
    /\ DateShaped(job) # {}
    /\ fromisoformat(FirstDateShaped(job)) # ValueError
    /\ DateLE(SDate, fromisoformat(FirstDateShaped(job)))
    /\ DateLE(fromisoformat(FirstDateShaped(job)), EDate)

\* C25: the date of a job is the first text of the shape YYYY-MM-DD of the
\* serialized job, in the order of the serialization, in whatever field it
\* stands; when that first text is no date of the calendar the job is
\* passed over, also when a later text of the job is one.
C25_FirstDateShapedDecides ==
    [][(pc = "jobs_loop" /\ job_index' = job_index + 1) =>
          LET job == jobs.items[job_index + 1]
          IN  IF DatedInWindow(job)
              THEN /\ counts' = CountSkills(counts, Content(job))
                   /\ HasSkill(job) => matched_jobs' = Append(matched_jobs, job)
              ELSE counts' = counts /\ matched_jobs' = matched_jobs]_vars

\* C25 witness: the job whose first text of that shape is 2025-13-01 and
\* whose second is 2025-03-15, inside the window, has been passed over
C25_Witness ==
    /\ pc = "jobs_loop" /\ job_index = 1
    /\ start_date = D_2025_01_01 /\ end_date = D_2025_06_30
    /\ Cardinality(DateShaped(jobs.items[1])) = 2
    /\ FirstDateShaped(jobs.items[1]) = D_2025_13_01
    /\ HasSkill(jobs.items[1])
    /\ counts = ZeroCounts /\ matched_jobs = <<>>

\* C25, a date in the title: the title holds 2025-07-01, the date field
\* 2025-03-15; the job is dated outside the window and adds nothing
C25_DateInTitle ==
    /\ pc = "jobs_loop" /\ job_index = 1
    /\ start_date = D_2025_01_01 /\ end_date = D_2025_06_30
    /\ Cardinality(DateShaped(jobs.items[1])) = 2
    /\ FirstDateShaped(jobs.items[1]) = D_2025_07_01
    /\ dict_get(jobs.items[1], "publishedAt") = JText(D_2025_03_15)
    /\ HasSkill(jobs.items[1])
    /\ counts = ZeroCounts /\ matched_jobs = <<>>

(***************************************************************************)
(* Specification SpecZone: the statistics command on details that carry    *)
(* the zone in a locations list, in flat fields, in both or in neither     *)
(***************************************************************************)
ZoneDetails ==
    { \* a list and a flat field, both usable
      JDict(<<Member("location", JText(lisboa)),
              Member("locations", JList(<<JDict(<<Member("name", JText(Porto))>>),
                                          JDict(<<Member("name", JText(porto))>>)>>))>>),
      \* a list of strings and a flat field
      JDict(<<Member("locations", JList(<<JText(<<SP>> \o Porto \o <<SP>>)>>)),
              Member("city", JText(lisboa)),
              Member("type", JText(<<SP>>)), Member("tipo", JText(Remote))>>),
      \* an empty list and a flat field
      JDict(<<Member("locations", JList(<<>>)),
              Member("localizacao", JText(lisboa))>>),
      \* a first element with a blank name; a blank flat field before a
      \* usable one
      JDict(<<Member("locations", JList(<<JDict(<<Member("name", JText(<<SP>>)),
                                                  Member("title", JText(Porto))>>),
                                          JDict(<<Member("name", JText(Porto))>>)>>)),
              Member("zona", JText(porto)),
              Member("location", JText(<<SP>>)),
              Member("region", JText(lisboa))>>),
      \* the name of the first element under the key nome
      JDict(<<Member("locations", JList(<<JDict(<<Member("name", JText(<<>>)),
                                                  Member("nome", JText(Porto))>>)>>)),
              Member("types", JList(<<JDict(<<Member("name", JText(<<>>)),
                                              Member("title", JText(Hybrid))>>)>>))>>),
      \* locations is no list
      JDict(<<Member("locations", JText(Porto)),
              Member("localidade", JText(lisboa)),
              Member("types", JList(<<JText(<<SP>>)>>))>>),
      \* a first element whose name is a number
      JDict(<<Member("locations", JList(<<JDict(<<Member("name", JInt(5))>>)>>)),
              Member("city", JText(porto)),
              Member("type", JInt(3)), Member("types", JList(<<>>))>>),
      \* nothing
      JDict(<<Member("id", JInt(1))>>) }

ZonePayloads ==
    {JList([i \in 1..n |-> JDict(<<Member("id", JInt(1))>>)]) : n \in 0..MaxEntries}

NextZone ==
    \/ StatisticsStart
    \/ StatisticsListJobs(ZonePayloads)
    \/ StatisticsJob(ZoneDetails)
    \/ StatisticsExport

SpecZone == InitStatistics /\ [][NextZone]_vars

FlatZoneKeys == <<"location", "localizacao", "localidade", "city", "region", "zona">>

\* the name that the first element of the locations list yields: the
\* element itself when it is a string, else the first of its values under
\* name, title, nome that is not empty; None without a usable name
ListZone(job) ==
    LET locs == dict_get(job, "locations")
    IN  IF locs.kind # "list" \/ locs.items = <<>> THEN None
        ELSE LET e    == locs.items[1]
                 subs == <<dict_get(e, "name"), dict_get(e, "title"), dict_get(e, "nome")>>
                 full == {i \in 1..3 : Truthy(subs[i])}
                 v    == IF e.kind = "str" THEN e
                         ELSE IF e.kind = "dict" /\ full # {} THEN subs[Min(full)]
                              ELSE JNull
             IN  IF v.kind = "str" /\ Strip(v.v) # <<>> THEN Strip(v.v) ELSE None

\* the first flat field that is a string with more than blanks
FlatZone(job) ==
    LET usable == {i \in 1..Len(FlatZoneKeys) :
                      /\ dict_get(job, FlatZoneKeys[i]).kind = "str"
                      /\ Strip(dict_get(job, FlatZoneKeys[i]).v) # <<>>}
    IN  IF usable = {} THEN None
        ELSE Strip(dict_get(job, FlatZoneKeys[Min(usable)]).v)

\* the zone of a job as the sentence has it
ZoneOf(job) ==
    IF ListZone(job) # None THEN ListZone(job)
    ELSE IF FlatZone(job) # None THEN FlatZone(job)
         ELSE Unknown

\* C26: the zone of a job is the name that the first element of its
\* locations list yields when the list is there, is not empty and that name
\* is not blank; else the first non-blank flat field among location,
\* localizacao, localidade, city, region, zona; else "Unknown".  The list
\* goes before a flat field when both are usable.
C26_ZoneOrder ==
    [][(pc = "details_loop" /\ Len(fetched') = Len(fetched) + 1
        /\ Successful(fetched'[Len(fetched')])) =>
          LET job == job_obj(fetched'[Len(fetched')].resp)
          IN  /\ _extract_zone_from_job(job) = ZoneOf(job)
              /\ counts' = Increment(counts, <<ZoneOf(job),
                                                _extract_type_from_job(job)>>)]_vars

\* C26 witness: a job with locations [Porto, porto] and location lisboa was
\* counted under Porto, a job with an empty list and localizacao lisboa
\* under lisboa
C26_Witness ==
    /\ pc = "details_loop" /\ Len(fetched) = 2
    /\ Successful(fetched[1]) /\ Successful(fetched[2])
    /\ ListZone(fetched[1].resp) = Porto /\ FlatZone(fetched[1].resp) = lisboa
    /\ dict_get(fetched[2].resp, "locations") = JList(<<>>)
    /\ counts = <<Counter(<<Porto, Unknown>>, 1), Counter(<<lisboa, Unknown>>, 1)>>

\* C26, neither: a job without a list and without a flat field was counted
\* under Unknown
C26_Unknown ==
    /\ pc = "details_loop" /\ Len(fetched) = 1
    /\ Successful(fetched[1])
    /\ ListZone(fetched[1].resp) = None /\ FlatZone(fetched[1].resp) = None
    /\ counts = <<Counter(<<Unknown, Unknown>>, 1)>>

\* C26, a first element without a usable name: its blank name hides its
\* title, the second element is not read, the blank location is passed
\* over and the region is taken before the zona
C26_BlankFirstElement ==
    /\ pc = "details_loop" /\ Len(fetched) = 1
    /\ Successful(fetched[1])
    /\ dict_get(fetched[1].resp, "zona") = JText(porto)
    /\ Len(dict_get(fetched[1].resp, "locations").items) = 2
    /\ counts = <<Counter(<<lisboa, Unknown>>, 1)>>

(***************************************************************************)
(* Specification SpecTables: the two commands that keep a count table      *)
(***************************************************************************)
InitTables == InitStatistics \/ InitSkillWords

NextTables == NextZone \/ NextSkillWords

SpecTables == InitTables /\ [][NextTables]_vars

\* a text with more than blanks
NonBlank(str) == str # <<>> /\ Strip(str) # <<>>

\* C27: every key of a count table is non-empty at every point of the
\* aggregation: zone and job type of each key of the statistics table are
\* neither empty nor blank, "Unknown" standing for a missing value, and each
\* key of the skills table is a non-empty keyword of the vocabulary.
C27_KeysNonEmpty ==
    /\ group # None =>
          \A i \in 1..Len(counts) :
              /\ Len(counts[i].key) = 2
              /\ NonBlank(counts[i].key[1])
              /\ NonBlank(counts[i].key[2])
    /\ start_date # None =>
          \A i \in 1..Len(counts) :
              /\ counts[i].key # <<>>
              /\ \E k \in 1..Len(skills_list) : skills_list[k] = counts[i].key

\* C27 witness: three jobs were counted, one with a blank type before a
\* usable one, one with a blank element in its types list and one with
\* neither zone nor type; the keys are Porto/Remote, lisboa/Unknown and
\* Unknown/Unknown
C27_Witness ==
    /\ group # None /\ pc = "details_loop" /\ Len(fetched) = 3
    /\ Successful(fetched[1])
    /\ dict_get(fetched[1].resp, "type") = JText(<<SP>>)
    /\ Successful(fetched[2])
    /\ dict_get(fetched[2].resp, "types") = JList(<<JText(<<SP>>)>>)
    /\ Successful(fetched[3])
    /\ counts = <<Counter(<<Porto, Remote>>, 1), Counter(<<lisboa, Unknown>>, 1),
                  Counter(<<Unknown, Unknown>>, 1)>>

\* C27, the skills table: after two jobs the table holds the eleven
\* keywords, some counted and some at 0
C27_SkillKeys ==
    /\ start_date # None /\ pc = "jobs_loop" /\ job_index = 2
    /\ Len(counts) = Len(skills_list)
    /\ counts[6].n = 6 /\ counts[4].n = 0

(***************************************************************************)
(* Specification SpecFields: _extract_company_name and _pick_job_field on  *)
(* the same job                                                            *)
(***************************************************************************)
SubKeys == <<"name", "title", "nome">>

\* the value under each sub-key, when it is not blank
SubValue == [name |-> Blip, title |-> <<SP>> \o Acme, nome |-> lip]

\* the objects with any of the sub-keys, each blank or not
NestedObjects ==
    UNION { { VObj([k \in S |-> IF k \in B THEN VStr(<<SP>>) ELSE VStr(SubValue[k])]) :
                B \in SUBSET S } :
            S \in SUBSET {"name", "title", "nome"} }

FieldJobs ==
    { VObj([company |-> c]) : c \in NestedObjects \cup {VStr(Blip)} }
        \cup { VObj([company |-> c, empresa |-> VObj([title |-> VStr(bli)])]) :
                  c \in NestedObjects }
        \cup { VObj([empresa |-> c]) : c \in NestedObjects }

InitFields ==
    /\ NormIdle
    /\ ExtractIdle
    /\ CliIdle
    /\ pc = "fields"
    /\ caller = "fields"
    /\ job_json \in FieldJobs
    /\ company_name = None
    /\ max_pages_fallback = FallbackPagesDefault
    /\ page = 0
    /\ slug = None
    /\ top_benefits = TopBenefitsDefault
    /\ benefits = <<>>
    /\ out = Unset
    /\ fetched = <<>>

\* _extract_company_name(job) and _pick_job_field(job, "company", "empresa")
ExtractFields ==
    /\ pc = "fields"
    /\ company_name' = _extract_company_name(job_json)
    /\ picked' = _pick_job_field(job_json, <<"company", "empresa">>)
    /\ pc' = "picked"
    /\ UNCHANGED <<caller, job_json, max_pages_fallback, page, slug, top_benefits,
                   benefits, out, fetched, start_date, end_date, group, job_index,
                   counts, matched_jobs, stdout, csv_path, csv_file, exit_code,
                   role, pages, top, normVars, extractVars>>

NextFields == ExtractFields

SpecFields == InitFields /\ [][NextFields]_vars

\* the object has a string with more than blanks under the sub-key
Usable(val, k) ==
    /\ k \in DOMAIN val.m
    /\ val.m[k].kind = "str"
    /\ Strip(val.m[k].v) # <<>>

\* the text of the first usable sub-key in the order name, title, nome
Unwrapped(val) ==
    LET usable == {i \in 1..Len(SubKeys) : Usable(val, SubKeys[i])}
    IN  IF usable = {} THEN None ELSE Strip(val.m[SubKeys[Min(usable)]].v)

\* the first of company, empresa that is an object with a usable sub-key
FirstNested(job) ==
    IF Get(job, "company").kind = "dict" /\ Unwrapped(Get(job, "company")) # None
    THEN Unwrapped(Get(job, "company"))
    ELSE IF Get(job, "empresa").kind = "dict"
            /\ Get(job, "company").kind # "str"
         THEN Unwrapped(Get(job, "empresa"))
         ELSE None

\* C28: an extractor unwraps a nested object by its sub-keys in the order
\* name, title, nome, the first non-empty one winning: a company that is
\* an object with a title and a nome and no name gives the title; so do
\* both _pick_job_field and _extract_company_name.
C28_SubKeyOrder ==
    (pc = "picked" /\ FirstNested(job_json) # None) =>
        /\ picked = FirstNested(job_json)
        /\ company_name = FirstNested(job_json)

\* C28 for _pick_job_field alone: the order is name, title, nome
C28_PickJobField ==
    (pc = "picked" /\ FirstNested(job_json) # None) =>
        picked = FirstNested(job_json)

\* C28, the failing run: the company is an object with a title and a nome;
\* _pick_job_field gives the title and _extract_company_name the nome
C28_NomeBeforeTitle ==
    /\ pc = "picked"
    /\ job_json = VObj([company |-> VObj([title |-> VStr(<<SP>> \o Acme),
                                          nome  |-> VStr(lip)])])
    /\ picked = Acme
    /\ company_name = lip

(***************************************************************************)
(* Specification SpecReserved: _find_teamlyzer_company_slug for companies  *)
(* whose names are words of the site's own pages                           *)
(***************************************************************************)
Jobs_   == <<"J", "o", "b", "s">>
jobs_   == <<"j", "o", "b", "s">>
Ranking == <<"R", "a", "n", "k", "i", "n", "g">>
ranking == <<"r", "a", "n", "k", "i", "n", "g">>

ReservedNames == {Jobs_, Ranking, Blip}

ReservedPages ==
    { \* the menu of the site: links to the ranking and to the jobs
      Page(<<ranking, jobs_, blip>>,
           Ranking \o <<BR>> \o Jobs_ \o <<BR>> \o Blip),
      \* the links without the words
      Page(<<jobs_, ranking>>, Acme),
      \* the words without the links
      Page(<<acme>>, Jobs_ \o <<SP>> \o Ranking) }

InitReserved ==
    /\ NormIdle
    /\ ExtractIdle
    /\ CliIdle
    /\ page = 0
    /\ benefits = <<>>
    /\ out = Unset
    /\ fetched = <<>>
    /\ max_pages_fallback \in Budgets
    /\ caller = "find" /\ pc = "find"
    /\ job_json = VOther
    /\ company_name \in ReservedNames /\ slug = None
    /\ top_benefits = TopBenefitsDefault

NextReserved ==
    \/ FindStart
    \/ FetchRanking(ReservedPages)
    \/ FetchDirectory(ReservedPages)

SpecReserved == InitReserved /\ [][NextReserved]_vars

\* C29: the resolver never returns one of the slugs ranking, awards, jobs,
\* remote-companies that the scan of the profile links leaves out,
\* whatever the company name and the pages.
C29_NoReservedSlug ==
    FindReturned => slug \notin ReservedSlugs

\* C29, the failing run: the company is named Jobs, the ranking page failed
\* and directory page 1 holds the word and the link /companies/jobs; the
\* resolver returns jobs
C29_ReservedReturned ==
    /\ caller = "find" /\ pc = "found"
    /\ company_name = Jobs_
    /\ Len(fetched) = 2
    /\ ~fetched[1].resp.ok
    /\ fetched[2].resp.ok /\ fetched[2].resp.links = <<ranking, jobs_, blip>>
    /\ extract_pairs(fetched[2].resp.links) = <<blip>>
    /\ slug = jobs_

\* C29, the scan of the links: for the company Blip the same page gives
\* blip
C29_LinkScanFilters ==
    /\ caller = "find" /\ pc = "found"
    /\ company_name = Blip
    /\ Len(fetched) = 1
    /\ fetched[1].resp.ok /\ fetched[1].resp.links = <<ranking, jobs_, blip>>
    /\ slug = blip

(***************************************************************************)
(* Specification SpecTiers: _find_teamlyzer_company_slug for a name of two *)
(* words, on pages that link to the words and to parts of them             *)
(***************************************************************************)
BlipLabs  == <<"B", "l", "i", "p", SP, "L", "a", "b", "s">>
blip_labs == <<"b", "l", "i", "p", "-", "l", "a", "b", "s">>
labs      == <<"l", "a", "b", "s">>

TierNames == {BlipLabs, Blip}

TierPages ==
    { Page(<<lip, blip>>, BlipLabs),             \* a part, then a word
      Page(<<labs, lip>>, BlipLabs),             \* a word, then a part
      Page(<<blip, blip_labs>>, BlipLabs),       \* a word, then the guess
      Page(<<acme, labs>>, Acme),                \* a word, without the name
      Page(<<acme>>, BlipLabs) }                 \* the name alone

InitTiers ==
    /\ NormIdle
    /\ ExtractIdle
    /\ CliIdle
    /\ page = 0
    /\ benefits = <<>>
    /\ out = Unset
    /\ fetched = <<>>
    /\ max_pages_fallback \in Budgets
    /\ caller = "find" /\ pc = "find"
    /\ job_json = VOther
    /\ company_name \in TierNames /\ slug = None
    /\ top_benefits = TopBenefitsDefault

NextTiers ==
    \/ FindStart
    \/ FetchRanking(TierPages)
    \/ FetchDirectory(TierPages)

SpecTiers == InitTiers /\ [][NextTiers]_vars

\* the word-bounded match would accept a profile link of the page
WordTierAccepts(name, resp) ==
    /\ resp.ok /\ NameInText(name, resp)
    /\ \E i \in 1..Len(extract_pairs(resp.links)) :
          WordSearch(extract_pairs(resp.links)[i], HyphenName(name))

\* what a directory page gives without the word-bounded match: the guessed
\* slug when the page links to it, else the first profile link that is a
\* part of the hyphenated name
TwoTierResult(name, resp) ==
    LET pairs == extract_pairs(resp.links)
        guess == GuessSlug(name)
        parts == {i \in 1..Len(pairs) : IsSubstr(pairs[i], HyphenName(name))}
    IN  IF ~resp.ok \/ ~NameInText(name, resp) THEN None
        ELSE IF guess # <<>> /\ \E i \in 1..Len(resp.links) : Lower(resp.links[i]) = guess
             THEN guess
             ELSE IF parts # {} THEN pairs[Min(parts)] ELSE None

C30_WordIsFirstPart ==
    /\ caller = "find" /\ pc = "found"
    /\ company_name = BlipLabs
    /\ Len(fetched) = 2
    /\ fetched[2].resp.ok /\ fetched[2].resp.links = <<labs, lip>>
    /\ slug = labs

====
